---- MODULE Spec2Model ----
(***************************************************************************)
(* Model of the catalogue scripts of trai-reza/catalog:                    *)
(*   build_catalog.py, final_catalog.py, generate_original_title_pdf.py,   *)
(*   restructure_original_title.py, generate_stateless_catalog_v2.py.      *)
(*                                                                         *)
(* A text is a sequence of one-character strings where the code looks at   *)
(* characters (escape, format_label_value).  Lengths are in points         *)
(* (1 inch = 72 points), fractions are pairs [n, d] compared by cross      *)
(* multiplication.                                                         *)
(***************************************************************************)
EXTENDS Integers, Sequences, FiniteSets, TLC

VARIABLES
    args,               \* arguments of the pure function under check
    result,             \* its return value (Pending before the call)
    script,             \* which script this run executes
    pc,                 \* position of the run in the script
    err,                \* the uncaught exception that ended the run, or NoError
    env,                \* what the run finds on disk (documents, images, fonts)
    story,              \* the list of flowables handed to doc.build
    builds,             \* number of doc.build invocations so far
    paragraphs,         \* build_catalogue: stripped non-empty paragraphs
    index,              \* build_catalogue: heading text -> position in paragraphs
    main_content,       \* create_catalog: non-blank paragraphs of main-content.docx
    images_with_desc,   \* create_catalog: extracted (image, description) pairs
    regular_images,     \* create_catalog: all but the last extracted image
    biography_image,    \* create_catalog: the last extracted image, or NoImage
    content_index,      \* create_catalog: main loop counter
    image_index,        \* create_catalog: next regular image to place
    temp_dir,           \* create_catalog: "absent" | "exists" | "removed"
    lines,              \* title scripts: the lines read from the source
    sections,           \* title scripts: section name -> list of lines
    cover               \* title scripts: cover lines / extracted cover fields

pureVars == <<args, result>>
runVars == <<script, pc, err, env, story, builds>>
buildVars == <<paragraphs, index>>
finalVars == <<main_content, images_with_desc, regular_images, biography_image,
               content_index, image_index, temp_dir>>
titleVars == <<lines, sections, cover>>
vars == <<pureVars, runVars, buildVars, finalVars, titleVars>>

Pending == [done |-> FALSE]
Returned(v) == [done |-> TRUE, value |-> v]

(***************************************************************************)
(* Generic helpers                                                         *)
(***************************************************************************)

\* All sequences over S of length at most n.
SeqsUpTo(S, n) == UNION {[1..k -> S] : k \in 0..n}

RECURSIVE Flatten(_)
\* Concatenation of a sequence of sequences.
Flatten(ss) == IF ss = <<>> THEN <<>> ELSE Head(ss) \o Flatten(Tail(ss))

\* Number of positions of s holding c.
Count(s, c) == Cardinality({i \in 1..Len(s) : s[i] = c})

(***************************************************************************)
(* build_catalog.py: escape                                                *)
(***************************************************************************)

RECURSIVE Replace(_, _, _)
\* str.replace(c, r) for a one-character pattern c.
Replace(s, c, r) ==
    IF s = <<>> THEN <<>>
    ELSE (IF Head(s) = c THEN r ELSE <<Head(s)>>) \o Replace(Tail(s), c, r)

AmpEntity == <<"&", "a", "m", "p", ";">>
LtEntity == <<"&", "l", "t", ";">>
GtEntity == <<"&", "g", "t", ";">>
BrTag == <<"<", "b", "r", "/", ">">>

\* A plausible slip: newlines are turned into <br/> before '<' and '>' are escaped.
escapeBreakFirst(text) ==
    Replace(Replace(Replace(Replace(text, "\n", BrTag), "&", AmpEntity),
                    "<", LtEntity), ">", GtEntity)

escape(text) ==
    Replace(Replace(Replace(Replace(text, "&", AmpEntity), "<", LtEntity),
                    ">", GtEntity), "\n", BrTag)

(***************************************************************************)
(* build_catalog.py: format_label_value                                    *)
(***************************************************************************)

IsSpace(c) == c \in {" ", "\n", "\t"}

RECURSIVE lstrip(_)
lstrip(s) == IF s # <<>> /\ IsSpace(Head(s)) THEN lstrip(Tail(s)) ELSE s

RECURSIVE rstrip(_)
rstrip(s) ==
    IF s # <<>> /\ IsSpace(s[Len(s)]) THEN rstrip(SubSeq(s, 1, Len(s) - 1)) ELSE s

strip(s) == rstrip(lstrip(s))

Contains(s, c) == \E i \in 1..Len(s) : s[i] = c

RECURSIVE SplitScan(_, _, _)
\* Scans for the separator; <<before, after>> at the first hit.
SplitScan(before, rest, c) ==
    IF rest = <<>> THEN <<before>>
    ELSE IF Head(rest) = c THEN <<before, Tail(rest)>>
    ELSE SplitScan(Append(before, Head(rest)), Tail(rest), c)

RECURSIVE RSplitScan(_, _, _)
\* A plausible slip: rsplit, cutting at the LAST separator.
RSplitScan(after, rest, c) ==
    IF rest = <<>> THEN <<after>>
    ELSE IF rest[Len(rest)] = c THEN <<SubSeq(rest, 1, Len(rest) - 1), after>>
    ELSE RSplitScan(<<rest[Len(rest)]>> \o after, SubSeq(rest, 1, Len(rest) - 1), c)

split1Last(text, c) == RSplitScan(<<>>, text, c)

\* text.split(c, 1)
split1(text, c) == SplitScan(<<>>, text, c)

BoldOpen == <<"<", "b", ">">>
BoldCloseColon == <<":", "<", "/", "b", ">", " ">>

format_label_value(text) ==
    IF Contains(text, ":")
    THEN LET parts == split1(text, ":")
             label == strip(parts[1])
             value == lstrip(parts[2])
         IN BoldOpen \o escape(label) \o BoldCloseColon \o escape(value)
    ELSE escape(text)

(***************************************************************************)
(* final_catalog.py: get_image_dimensions                                  *)
(***************************************************************************)

Inch == 72

Frac(n, d) == [n |-> n, d |-> d]
\* Comparisons of fractions with positive denominators.
FracLe(a, b) == a.n * b.d <= b.n * a.d
FracGt(a, b) == a.n * b.d > b.n * a.d
FracEq(a, b) == a.n * b.d = b.n * a.d

DefaultMaxWidth == [n |-> 11 * Inch, d |-> 2]    \* 5.5*inch
DefaultMaxHeight == [n |-> 7 * Inch, d |-> 1]
BioMaxWidth == [n |-> 5 * Inch, d |-> 1]
BioMaxHeight == [n |-> 6 * Inch, d |-> 1]
FallbackSize == [width |-> Frac(4 * Inch, 1), height |-> Frac(3 * Inch, 1)]

\* A plausible slip: the second clamp (height > max_height) is missing.
DimensionsBodyNoHeightClamp(img, max_width, max_height) ==
    IF ~img.opens THEN [raised |-> "IOError"]
    ELSE IF img.h = 0 THEN [raised |-> "ZeroDivisionError"]
    ELSE LET w0 == Frac(img.w, 1)
             h0 == Frac(img.h, 1)
             overW == FracGt(w0, max_width)
             w1 == IF overW THEN max_width ELSE w0
             h1 == IF overW THEN Frac(max_width.n * img.h, max_width.d * img.w) ELSE h0
         IN [raised |-> "none", width |-> w1, height |-> h1]

\* The body of the try block: the size, or the exception it raises.
\* img = [opens |-> BOOLEAN, w |-> Nat, h |-> Nat] is what PIL finds at image_path.
DimensionsBody(img, max_width, max_height) ==
    IF ~img.opens THEN [raised |-> "IOError"]
    ELSE IF img.h = 0 THEN [raised |-> "ZeroDivisionError"]
    ELSE LET w0 == Frac(img.w, 1)
             h0 == Frac(img.h, 1)
             \* aspect = img.w / img.h
             overW == FracGt(w0, max_width)
             w1 == IF overW THEN max_width ELSE w0
             \* height = width / aspect = max_width * img.h / img.w
             h1 == IF overW THEN Frac(max_width.n * img.h, max_width.d * img.w) ELSE h0
             overH == FracGt(h1, max_height)
             h2 == IF overH THEN max_height ELSE h1
             \* width = height * aspect = max_height * img.w / img.h
             w2 == IF overH THEN Frac(max_height.n * img.w, max_height.d * img.h) ELSE w1
         IN [raised |-> "none", width |-> w2, height |-> h2]

\* "except:" with no exception class catches every exception.
BareExceptCatches(exc) == TRUE

\* try: ... except: return 4*inch, 3*inch
get_image_dimensions(img, max_width, max_height) ==
    LET body == DimensionsBody(img, max_width, max_height)
    IN IF body.raised = "none" THEN body
       ELSE IF BareExceptCatches(body.raised)
       THEN [raised |-> "none", width |-> FallbackSize.width,
             height |-> FallbackSize.height]
       ELSE body

(***************************************************************************)
(* Values of the variables a specification does not use                    *)
(***************************************************************************)

NoImage == [path |-> "None", desc |-> ""]

\* The exception that ended the run: its class and what raised it.
NoError == [type |-> "none", what |-> ""]
Raise(type, what) == [type |-> type, what |-> what]

IdlePure == args = <<>> /\ result = Pending
IdleRun ==
    /\ script = "none" /\ pc = "idle" /\ err = NoError
    /\ env = <<>> /\ story = <<>> /\ builds = 0
IdleBuild == paragraphs = <<>> /\ index = <<>>
IdleFinal ==
    /\ main_content = <<>> /\ images_with_desc = <<>> /\ regular_images = <<>>
    /\ biography_image = NoImage /\ content_index = 0 /\ image_index = 0
    /\ temp_dir = "absent"
IdleTitle == lines = <<>> /\ sections = <<>> /\ cover = <<>>

(***************************************************************************)
(* Calls of the pure functions on bounded inputs                           *)
(***************************************************************************)

MaxPieces == 2
MaxTextLen == 4
SizeStep == 100
MaxSizeSteps == 8

EscapePieces == {<<"&">>, <<"<">>, <<">">>, <<"\n">>, <<"a">>, BrTag, LtEntity, AmpEntity}
EscapeInputs == {Flatten(ps) : ps \in SeqsUpTo(EscapePieces, MaxPieces)}

InitEscape ==
    /\ args \in {[a |-> s, b |-> t] : s \in EscapeInputs, t \in EscapeInputs}
    /\ result = Pending
    /\ IdleRun /\ IdleBuild /\ IdleFinal /\ IdleTitle

CallEscape ==
    /\ result = Pending
    /\ result' = Returned([a |-> escape(args.a), b |-> escape(args.b)])
    /\ UNCHANGED <<args, runVars, buildVars, finalVars, titleVars>>

SpecEscape == InitEscape /\ [][CallEscape]_vars

FormatChars == {":", " ", "a", "<", "\n"}
FormatInputs == SeqsUpTo(FormatChars, MaxTextLen)

InitFormat ==
    /\ args \in {[text |-> t] : t \in FormatInputs}
    /\ result = Pending
    /\ IdleRun /\ IdleBuild /\ IdleFinal /\ IdleTitle

CallFormatLabelValue ==
    /\ result = Pending
    /\ result' = Returned(format_label_value(args.text))
    /\ UNCHANGED <<args, runVars, buildVars, finalVars, titleVars>>

SpecFormat == InitFormat /\ [][CallFormatLabelValue]_vars

\* Pixel sizes PIL may report: a grid, and the sizes just at and above the limits.
ImageSizes ==
    {k * SizeStep : k \in 0..MaxSizeSteps}
        \cup {m.n \div m.d + k : m \in {DefaultMaxWidth, DefaultMaxHeight,
                                        BioMaxWidth, BioMaxHeight}, k \in {0, 1}}
ImageFiles == {[opens |-> o, w |-> w, h |-> h] : o \in BOOLEAN, w \in ImageSizes, h \in ImageSizes}
\* The two ways create_catalog calls it: defaults, and the biography limits.
DimensionLimits ==
    {[max_width |-> DefaultMaxWidth, max_height |-> DefaultMaxHeight],
     [max_width |-> BioMaxWidth, max_height |-> BioMaxHeight]}

InitDimensions ==
    /\ args \in {[img |-> i, max_width |-> l.max_width, max_height |-> l.max_height] :
                    i \in ImageFiles, l \in DimensionLimits}
    /\ result = Pending
    /\ IdleRun /\ IdleBuild /\ IdleFinal /\ IdleTitle

CallGetImageDimensions ==
    /\ result = Pending
    /\ result' = Returned(get_image_dimensions(args.img, args.max_width, args.max_height))
    /\ UNCHANGED <<args, runVars, buildVars, finalVars, titleVars>>

SpecDimensions == InitDimensions /\ [][CallGetImageDimensions]_vars

(***************************************************************************)
(* Claims about the pure functions                                         *)
(***************************************************************************)

\* Position of the first ':' of t.
FirstColon(t) == CHOOSE i \in 1..Len(t) : t[i] = ":" /\ \A j \in 1..(i - 1) : t[j] # ":"

\* C8: format_label_value returns '<b>' + escape(L) + ':</b> ' + escape(V) when the
\* text holds a ':', L being the stripped text before the FIRST colon and V the text
\* after the first colon with leading whitespace stripped (later colons stay in V);
\* without a ':' it returns escape(text).
C8_FormatLabelValue ==
    result.done =>
        LET t == args.text
        IN IF \E i \in 1..Len(t) : t[i] = ":"
           THEN LET k == FirstColon(t)
                    L == strip(SubSeq(t, 1, k - 1))
                    V == lstrip(SubSeq(t, k + 1, Len(t)))
                IN result.value = <<"<", "b", ">">> \o escape(L)
                              \o <<":", "<", "/", "b", ">", " ">> \o escape(V)
           ELSE result.value = escape(t)

\* A text with two colons and whitespace before the value: the cut is at the first.
C8_Witness ==
    /\ result.done
    /\ args.text = <<"a", ":", " ", ":">>
    /\ result.value = <<"<", "b", ">", "a", ":", "<", "/", "b", ">", " ", ":">>

HasAt(o, i, tok) == i >= 1 /\ i + Len(tok) - 1 <= Len(o) /\ SubSeq(o, i, i + Len(tok) - 1) = tok

\* Every '<' and '>' of o belongs to a '<br/>' token, one token per newline of t.
OnlyBreakTags(t, o) ==
    /\ \A i \in 1..Len(o) :
        /\ o[i] = "<" => HasAt(o, i, BrTag)
        /\ o[i] = ">" => HasAt(o, i - 4, BrTag)
    /\ Count(o, "<") = Count(t, "\n")
    /\ Count(o, ">") = Count(t, "\n")

AmpersandsStartEntities(o) ==
    \A i \in 1..Len(o) :
        o[i] = "&" => HasAt(o, i, AmpEntity) \/ HasAt(o, i, LtEntity) \/ HasAt(o, i, GtEntity)

\* C9: the output of escape holds no '<' and no '>' other than those of the '<br/>'
\* tokens made from newlines, every '&' of it starts '&amp;', '&lt;' or '&gt;', and
\* two different inputs never give the same output.
C9_EscapeNeutralises ==
    result.done =>
        /\ OnlyBreakTags(args.a, result.value.a)
        /\ AmpersandsStartEntities(result.value.a)
        /\ (result.value.a = result.value.b => args.a = args.b)

\* The literal text <br/> and a newline are escaped to different outputs.
C9_Witness ==
    /\ result.done
    /\ args.a = BrTag /\ args.b = <<"\n">>
    /\ result.value.b = BrTag
    /\ result.value.a = LtEntity \o <<"b", "r", "/">> \o GtEntity

\* C10: get_image_dimensions never raises; a failure to open or measure the image
\* (height 0 included) gives 4 inch by 3 inch; a success gives width <= max_width and
\* height <= max_height, and an image within both limits keeps its size.
C10_GetImageDimensions ==
    result.done =>
        LET img == args.img
            failed == ~img.opens \/ img.h = 0
            within == /\ FracLe(Frac(img.w, 1), args.max_width)
                      /\ FracLe(Frac(img.h, 1), args.max_height)
        IN /\ result.value.raised = "none"
           /\ failed => /\ FracEq(result.value.width, Frac(4 * 72, 1))
                        /\ FracEq(result.value.height, Frac(3 * 72, 1))
           /\ ~failed => /\ FracLe(result.value.width, args.max_width)
                         /\ FracLe(result.value.height, args.max_height)
                         /\ within => /\ FracEq(result.value.width, Frac(img.w, 1))
                                      /\ FracEq(result.value.height, Frac(img.h, 1))

\* A tall image: the width clamp leaves it too high, the height clamp shrinks it.
C10_Witness ==
    /\ result.done
    /\ args.img = [opens |-> TRUE, w |-> 4 * SizeStep, h |-> 8 * SizeStep]
    /\ args.max_width = DefaultMaxWidth
    /\ FracEq(result.value.height, DefaultMaxHeight)
    /\ FracEq(result.value.width, Frac(DefaultMaxHeight.n, 2 * DefaultMaxHeight.d))

(***************************************************************************)
(* build_catalog.py: build_catalogue                                       *)
(*                                                                         *)
(* A paragraph text is an atom (a string); "~" stands for the typographic  *)
(* apostrophe U+2019.  A paragraph of the .docx is its text with optional  *)
(* surrounding whitespace: [lead, core, trail]; core = "" is a blank one.  *)
(***************************************************************************)

\* The list the section indices are located for, in the order of the code.
Headings ==
    <<"General information:", "Contact:", "Logline", "Synopsis", "Artistic Approach",
      "Director's Notes", "Producer~s Note", "Finance Plan", "Outlook & Distribution",
      "Biography:", "Filmography:", "Links to Previous movie:">>

NumHeadings == Len(Headings)

ImageNames ==
    {"photo01.png", "photo02.jpeg", "photo03.png", "photo04.jpeg", "photo05.jpeg",
     "photo06.jpeg", "photo09.png", "photo10.png", "photo12.png", "photo13.jpeg"}

\* captions[filename]: every image of the story has a non-empty caption.
captions == [f \in ImageNames |-> "caption of " \o f]

\* p.text.strip() of a paragraph of the document.
StripText(p) == p.core

\* Tests the code makes on a text; the texts are those the documents below hold.
EndsWithColon(t) ==
    t \in {"General information:", "Contact:", "Biography:", "Filmography:",
           "Links to Previous movie:", "Original title:", "Trailer:"}
StartsWithHttp(t) == t \in {"https://vimeo.com/1"}
FilmographySubheaders == {"Writer and Director", "Festivals", "Awards", "TV Broadcast"}

\* Flowables.
Spacer == [kind |-> "Spacer", text |-> "", markup |-> "", style |-> ""]
ImageEl(f) == [kind |-> "Image", text |-> f, markup |-> "", style |-> ""]
Para(t, markup, style) == [kind |-> "Paragraph", text |-> t, markup |-> markup, style |-> style]
PageBreak == [kind |-> "PageBreak", text |-> "", markup |-> "", style |-> ""]

\* section_header: a one-cell table holding Paragraph(escape(text), section_title_style).
section_header(t) == [kind |-> "Header", text |-> t, markup |-> "escape", style |-> "section_title"]


\* [p.text.strip() for p in document.paragraphs if p.text.strip()]
ReadParagraphs(document) ==
    LET keep == SelectSeq(document, LAMBDA p : StripText(p) # "")
    IN [i \in 1..Len(keep) |-> StripText(keep[i])]

\* list.index(text): the 0-based position of the first occurrence, -1 standing for ValueError.
ListIndex(ps, t) ==
    IF \E i \in 1..Len(ps) : ps[i] = t
    THEN (CHOOSE i \in 1..Len(ps) : ps[i] = t /\ \A j \in 1..(i - 1) : ps[j] # t) - 1
    ELSE -1

\* A plausible slip: a missing heading is tolerated (position 0) instead of raising.
LocateIndicesLenient(ps) ==
    [raised |-> FALSE,
     index |-> [h \in {Headings[i] : i \in 1..NumHeadings} |->
                    IF ListIndex(ps, h) < 0 THEN 0 ELSE ListIndex(ps, h)]]

\* index = {text: paragraphs.index(text) for text in [...]}
LocateIndices(ps) ==
    IF \E i \in 1..NumHeadings : ListIndex(ps, Headings[i]) < 0
    THEN [raised |-> TRUE, index |-> <<>>]
    ELSE [raised |-> FALSE,
          index |-> [h \in {Headings[i] : i \in 1..NumHeadings} |-> ListIndex(ps, h)]]

\* paragraphs[i] with Python's 0-based i.
At(ps, i) == ps[i + 1]

\* A plausible slip: the existence test of the image is dropped.
image_with_captionUnchecked(missing, filename, add_top_space) ==
    [raised |-> NoError,
     elements |-> (IF add_top_space THEN <<Spacer>> ELSE <<>>)
                    \o <<ImageEl(filename)>>
                    \o <<Spacer, Para(captions[filename], "escape", "caption")>>
                    \o <<Spacer>>]

\* image_with_caption(filename, captions[filename], add_top_space): the elements, or
\* the FileNotFoundError of a missing file.
image_with_caption(missing, filename, add_top_space) ==
    IF filename \in missing
    THEN [raised |-> Raise("FileNotFoundError", filename), elements |-> <<>>]
    ELSE [raised |-> NoError,
          elements |-> (IF add_top_space THEN <<Spacer>> ELSE <<>>)
                         \o <<ImageEl(filename)>>
                         \o (IF captions[filename] # ""
                             THEN <<Spacer, Para(captions[filename], "escape", "caption")>>
                             ELSE <<>>)
                         \o <<Spacer>>]

\* for idx in range(lo, hi): story.append(Paragraph(escape(paragraphs[idx]), body_style))
BodyParagraphs(ps, lo, hi) ==
    [k \in 1..(IF hi > lo THEN hi - lo ELSE 0) |-> Para(At(ps, lo + k - 1), "escape", "body")]

\* A plausible slip: photo09 follows the fourth paragraph instead of the fifth.
SynopsisImageAfterFourth(offset) ==
    CASE offset = 1 -> "photo04.jpeg"
      [] offset = 2 -> "photo05.jpeg"
      [] offset = 3 -> "photo06.jpeg"
      [] offset = 4 -> "photo09.png"
      [] OTHER -> ""

\* The image placed after the paragraph at the given offset from the Synopsis heading.
SynopsisImage(offset) ==
    CASE offset = 1 -> "photo04.jpeg"
      [] offset = 2 -> "photo05.jpeg"
      [] offset = 3 -> "photo06.jpeg"
      [] offset = 5 -> "photo09.png"
      [] OTHER -> ""

\* The image placed after the paragraph at the given enumerate() offset of Artistic Approach.
ArtisticImage(offset) ==
    CASE offset = 0 -> "photo10.png"
      [] offset = 2 -> "photo12.png"
      [] OTHER -> ""

RECURSIVE ImageLoop(_, _, _, _, _, _)
\* The loops of the Synopsis and Artistic Approach sections: a body paragraph per
\* index, an image after some of them; stops at the first image that raises.
\* first is the offset of idx = lo (1 for Synopsis, 0 for Artistic Approach).
ImageLoop(ps, missing, idx, hi, offset, acc) ==
    IF idx >= hi THEN [raised |-> NoError, elements |-> acc]
    ELSE LET withPara == Append(acc, Para(At(ps, idx), "escape", "body"))
             file == IF offset.synopsis THEN SynopsisImage(offset.n) ELSE ArtisticImage(offset.n)
         IN IF file = ""
            THEN ImageLoop(ps, missing, idx + 1, hi, [offset EXCEPT !.n = @ + 1], withPara)
            ELSE LET img == image_with_caption(missing, file, TRUE)
                 IN IF img.raised.type # "none"
                    THEN [raised |-> img.raised, elements |-> withPara]
                    ELSE ImageLoop(ps, missing, idx + 1, hi, [offset EXCEPT !.n = @ + 1],
                                   withPara \o img.elements)

\* --- the documents and file systems a run of build_catalogue may find ---

MaxMeta == 1
MaxLogline == 2
MaxSynopsis == 5
MaxArtistic == 3
MaxOther == 1

Raw(lead, core, trail) == [lead |-> lead, core |-> core, trail |-> trail]
BlankParagraph == Raw(" ", "", "")

\* What an author may write instead of a heading: no heading of the list equals it.
NearMiss ==
    <<"General information", "Contact", "Logline:", "Synopsis:", "Artistic approach",
      "Director~s Notes", "Producer's Note", "Finance plan", "Outlook and Distribution",
      "Biography", "Filmography", "Links to Previous Movie:">>

CoverText(k) ==
    CASE k = 1 -> "Stateless as wind"
      [] k = 2 -> "Autobiographical Documentary"
      [] k = 3 -> "Original title:"
      [] OTHER -> "Credit " \o ToString(k)

BodyText(j, k) ==
    CASE j = 1 -> "Label " \o ToString(k) \o ": value"
      [] j = 11 /\ k = 1 -> "Festivals"
      [] j = 12 /\ k = 1 -> "Trailer:"
      [] j = 12 /\ k = 2 -> "https://vimeo.com/1"
      [] OTHER -> "Body " \o ToString(j) \o "." \o ToString(k)

Shapes ==
    [meta : 0..MaxMeta, logline : 0..MaxLogline, synopsis : 0..MaxSynopsis,
     artistic : 0..MaxArtistic, other : 0..MaxOther]

BaseShape == [meta |-> 0, logline |-> 1, synopsis |-> 1, artistic |-> 1, other |-> 0]

\* ok: the headings as expected; drop: heading h is written as its near miss;
\* swap: sections h and h+1 change places; logline_last: the Logline section comes
\* last; short_cover: fewer than the two cover lines the code takes for granted.
Variants ==
    {[kind |-> "ok", h |-> 0], [kind |-> "logline_last", h |-> 0]}
        \cup {[kind |-> "drop", h |-> h] : h \in 1..NumHeadings}
        \cup {[kind |-> "swap", h |-> h] : h \in 1..(NumHeadings - 1)}
        \cup {[kind |-> "short_cover", h |-> h] : h \in 0..1}

SectionOrder(variant) ==
    CASE variant.kind = "swap" ->
            [i \in 1..NumHeadings |->
                IF i = variant.h THEN i + 1 ELSE IF i = variant.h + 1 THEN i - 1 ELSE i]
      [] variant.kind = "logline_last" ->
            [i \in 1..NumHeadings |-> IF i < 3 THEN i ELSE IF i = NumHeadings THEN 3 ELSE i + 1]
      [] OTHER -> [i \in 1..NumHeadings |-> i]

BodyCount(shape, j) ==
    CASE j = 3 -> shape.logline
      [] j = 4 -> shape.synopsis
      [] j = 5 -> shape.artistic
      [] OTHER -> shape.other

SectionBlock(shape, variant, j) ==
    <<Raw(IF j % 2 = 0 THEN " " ELSE "",
          IF variant.kind = "drop" /\ variant.h = j THEN NearMiss[j] ELSE Headings[j],
          IF j % 3 = 0 THEN "  " ELSE ""),
      BlankParagraph>>
        \o [k \in 1..BodyCount(shape, j) |-> Raw("", BodyText(j, k), IF k % 2 = 0 THEN " " ELSE "")]

SourceDocument(shape, variant) ==
    LET nCover == IF variant.kind = "short_cover" THEN variant.h ELSE 2 + shape.meta
        order == SectionOrder(variant)
    IN [k \in 1..nCover |-> Raw("", CoverText(k), "")]
        \o Flatten([i \in 1..NumHeadings |-> SectionBlock(shape, variant, order[i])])

\* All files present, or main-content.docx, assets/photos or one image missing.
FileSystems ==
    {[docx |-> TRUE, image_dir |-> TRUE, missing |-> {}],
     [docx |-> FALSE, image_dir |-> TRUE, missing |-> {}],
     [docx |-> TRUE, image_dir |-> FALSE, missing |-> ImageNames],
     [docx |-> FALSE, image_dir |-> FALSE, missing |-> ImageNames]}
        \cup {[docx |-> TRUE, image_dir |-> TRUE, missing |-> {f}] : f \in ImageNames}

AllPresent(fs) == fs.docx /\ fs.image_dir /\ fs.missing = {}

InitBuild ==
    /\ script = "build_catalog"
    /\ pc = "check_docx"
    /\ err = NoError
    /\ \E shape \in Shapes, variant \in Variants, fs \in FileSystems :
        /\ variant.kind = "ok" \/ AllPresent(fs) \/ shape = BaseShape
        /\ env = [docx |-> fs.docx, image_dir |-> fs.image_dir, missing |-> fs.missing,
                  document |-> SourceDocument(shape, variant)]
    /\ story = <<>>
    /\ builds = 0
    /\ IdlePure /\ IdleBuild /\ IdleFinal /\ IdleTitle

\* --- the steps of build_catalogue ---

BCFrame == UNCHANGED <<pureVars, script, env, builds, finalVars, titleVars>>

\* A plausible slip: the exception is noted and the run goes on to build the PDF.
FailAndBuildAnyway(e) == pc' = "build" /\ err' = e

\* An uncaught exception ends the run.
Fail(e) == pc' = "failed" /\ err' = e

BC_CheckDocx ==
    /\ script = "build_catalog" /\ pc = "check_docx"
    /\ IF env.docx
       THEN pc' = "check_image_dir" /\ UNCHANGED err
       ELSE Fail(Raise("FileNotFoundError", "main-content.docx"))
    /\ UNCHANGED <<story, buildVars>> /\ BCFrame

BC_CheckImageDir ==
    /\ script = "build_catalog" /\ pc = "check_image_dir"
    /\ IF env.image_dir
       THEN pc' = "read" /\ UNCHANGED err
       ELSE Fail(Raise("FileNotFoundError", "assets/photos"))
    /\ UNCHANGED <<story, buildVars>> /\ BCFrame

BC_ReadParagraphs ==
    /\ script = "build_catalog" /\ pc = "read"
    /\ paragraphs' = ReadParagraphs(env.document)
    /\ pc' = "locate"
    /\ UNCHANGED <<err, story, index>> /\ BCFrame

BC_LocateIndices ==
    /\ script = "build_catalog" /\ pc = "locate"
    /\ LET found == LocateIndices(paragraphs)
       IN IF found.raised
          THEN Fail(Raise("ValueError", "paragraphs.index")) /\ UNCHANGED index
          ELSE index' = found.index /\ pc' = "cover" /\ UNCHANGED err
    /\ UNCHANGED <<story, paragraphs>> /\ BCFrame

\* Appends what a step produced; the step's exception, if any, ends the run.
Produce(out, nextPc) ==
    /\ story' = story \o out.elements
    /\ IF out.raised.type # "none" THEN Fail(out.raised) ELSE pc' = nextPc /\ UNCHANGED err
    /\ UNCHANGED buildVars /\ BCFrame

Ok(elements) == [raised |-> NoError, elements |-> elements]

\* before, then the image (or its exception), then after.
WithImage(before, file, top, after) ==
    LET img == image_with_caption(env.missing, file, top)
    IN IF img.raised.type # "none"
       THEN [raised |-> img.raised, elements |-> before]
       ELSE Ok(before \o img.elements \o after)

BC_Cover ==
    /\ script = "build_catalog" /\ pc = "cover"
    /\ Produce(WithImage(<<>>, "photo01.png", FALSE, <<>>), "meta")

MetaParagraphs ==
    LET lo == 2
        hi == index["General information:"]
    IN [k \in 1..(IF hi > lo THEN hi - lo ELSE 0) |->
            LET text == At(paragraphs, lo + k - 1)
            IN IF EndsWithColon(text) THEN Para(text, "bold", "meta")
               ELSE Para(text, "escape", "meta")]

BC_Meta ==
    /\ script = "build_catalog" /\ pc = "meta"
    /\ Produce(Ok(MetaParagraphs \o <<Spacer>>), "general")

GeneralParagraphs ==
    LET lo == index["General information:"] + 1
        hi == index["Contact:"]
    IN [k \in 1..(IF hi > lo THEN hi - lo ELSE 0) |->
            Para(At(paragraphs, lo + k - 1), "format_label_value", "info")]

BC_General ==
    /\ script = "build_catalog" /\ pc = "general"
    /\ Produce(Ok(<<section_header(At(paragraphs, index["General information:"])), Spacer>>
                    \o GeneralParagraphs), "contact")

BC_Contact ==
    /\ script = "build_catalog" /\ pc = "contact"
    /\ Produce(WithImage(<<Spacer, section_header(At(paragraphs, index["Contact:"])), Spacer>>
                            \o BodyParagraphs(paragraphs, index["Contact:"] + 1, index["Logline"]),
                         "photo02.jpeg", TRUE, <<>>), "logline")

\* The Logline section renders the one paragraph after the heading.
BC_Logline ==
    /\ script = "build_catalog" /\ pc = "logline"
    /\ LET head == <<section_header(At(paragraphs, index["Logline"])), Spacer>>
       IN IF index["Logline"] + 1 >= Len(paragraphs)
          THEN Produce([raised |-> Raise("IndexError", "paragraphs"), elements |-> head],
                       "synopsis")
          ELSE Produce(WithImage(Append(head, Para(At(paragraphs, index["Logline"] + 1),
                                                   "escape", "body")),
                                 "photo03.png", TRUE, <<>>), "synopsis")

BC_Synopsis ==
    /\ script = "build_catalog" /\ pc = "synopsis"
    /\ Produce(ImageLoop(paragraphs, env.missing, index["Synopsis"] + 1,
                         index["Artistic Approach"], [synopsis |-> TRUE, n |-> 1],
                         <<section_header(At(paragraphs, index["Synopsis"])), Spacer>>),
               "artistic")

BC_Artistic ==
    /\ script = "build_catalog" /\ pc = "artistic"
    /\ Produce(ImageLoop(paragraphs, env.missing, index["Artistic Approach"] + 1,
                         index["Director's Notes"], [synopsis |-> FALSE, n |-> 0],
                         <<section_header(At(paragraphs, index["Artistic Approach"])), Spacer>>),
               "director")

\* A section of body paragraphs only: banner, spacer, the slice up to the next heading.
PlainSection(h, next) ==
    <<section_header(At(paragraphs, index[h])), Spacer>>
        \o BodyParagraphs(paragraphs, index[h] + 1, index[next])

BC_Director ==
    /\ script = "build_catalog" /\ pc = "director"
    /\ Produce(Ok(PlainSection("Director's Notes", "Producer~s Note")), "producer")

BC_Producer ==
    /\ script = "build_catalog" /\ pc = "producer"
    /\ Produce(Ok(PlainSection("Producer~s Note", "Finance Plan")), "finance")

BC_Finance ==
    /\ script = "build_catalog" /\ pc = "finance"
    /\ Produce(Ok(PlainSection("Finance Plan", "Outlook & Distribution")), "outlook")

BC_Outlook ==
    /\ script = "build_catalog" /\ pc = "outlook"
    /\ Produce(Ok(PlainSection("Outlook & Distribution", "Biography:")), "biography")

BC_Biography ==
    /\ script = "build_catalog" /\ pc = "biography"
    /\ Produce(WithImage(<<section_header(At(paragraphs, index["Biography:"])), Spacer>>,
                         "photo13.jpeg", TRUE,
                         BodyParagraphs(paragraphs, index["Biography:"] + 1,
                                        index["Filmography:"])),
               "filmography")

FilmographyParagraphs ==
    LET lo == index["Filmography:"] + 1
        hi == index["Links to Previous movie:"]
    IN [k \in 1..(IF hi > lo THEN hi - lo ELSE 0) |->
            LET text == At(paragraphs, lo + k - 1)
            IN IF text \in FilmographySubheaders THEN Para(text, "escape", "subheader")
               ELSE Para(text, "escape", "body")]

BC_Filmography ==
    /\ script = "build_catalog" /\ pc = "filmography"
    /\ Produce(Ok(<<section_header(At(paragraphs, index["Filmography:"])), Spacer>>
                    \o FilmographyParagraphs), "links")

LinksParagraphs ==
    LET lo == index["Links to Previous movie:"] + 1
        hi == Len(paragraphs)
    IN [k \in 1..(IF hi > lo THEN hi - lo ELSE 0) |->
            LET text == At(paragraphs, lo + k - 1)
            IN IF EndsWithColon(text) THEN Para(text, "escape", "subheader")
               ELSE IF StartsWithHttp(text) THEN Para(text, "link", "body")
               ELSE Para(text, "escape", "body")]

BC_Links ==
    /\ script = "build_catalog" /\ pc = "links"
    /\ Produce(Ok(<<section_header(At(paragraphs, index["Links to Previous movie:"])), Spacer>>
                    \o LinksParagraphs), "build")

\* doc.build(story): writes the PDF, or raises (layout error, unwritable file).
DocBuild(nextPc) ==
    /\ builds' = builds + 1
    /\ \E ok \in BOOLEAN :
        IF ok THEN pc' = nextPc /\ UNCHANGED err
        ELSE Fail(Raise("BuildError", "doc.build"))

BC_Build ==
    /\ script = "build_catalog" /\ pc = "build"
    /\ DocBuild("done")
    /\ UNCHANGED <<pureVars, script, env, story, buildVars, finalVars, titleVars>>

NextBuild ==
    \/ BC_CheckDocx \/ BC_CheckImageDir \/ BC_ReadParagraphs \/ BC_LocateIndices
    \/ BC_Cover \/ BC_Meta \/ BC_General \/ BC_Contact \/ BC_Logline \/ BC_Synopsis
    \/ BC_Artistic \/ BC_Director \/ BC_Producer \/ BC_Finance \/ BC_Outlook
    \/ BC_Biography \/ BC_Filmography \/ BC_Links \/ BC_Build

SpecBuild == InitBuild /\ [][NextBuild]_vars

(***************************************************************************)
(* Claims about build_catalogue                                            *)
(***************************************************************************)

\* The file names of the images of a list of flowables, in order.
ImagesOf(elements) ==
    LET IsImage(e) == e.kind = "Image"
        images == SelectSeq(elements, IsImage)
    IN [i \in DOMAIN images |-> images[i].text]

StoryImages == {story[i].text : i \in {k \in 1..Len(story) : story[k].kind = "Image"}}

\* image_with_caption was called for f in this run: f is in the story, or the call raised.
Requested(f) == f \in StoryImages \/ (err.type = "FileNotFoundError" /\ err.what = f)

EndedWithFileNotFound == pc = "failed" /\ err.type = "FileNotFoundError" /\ builds = 0

HeadingMissing ==
    \E i \in 1..NumHeadings :
        \A k \in 1..Len(env.document) : StripText(env.document[k]) # Headings[i]

\* C2: in build_catalogue each of the twelve headings must be a whole stripped
\* paragraph of the document; if one is not, locating the indices raises, before any
\* story element is created and before doc.build.
C2_MissingHeadingRaises ==
    (script = "build_catalog" /\ env.docx /\ env.image_dir /\ HeadingMissing) =>
        /\ story = <<>>
        /\ builds = 0
        /\ pc \notin {"check_docx", "check_image_dir", "read", "locate"}
                => pc = "failed" /\ err.type = "ValueError"

\* The document spells Producer's Note with a straight apostrophe: ValueError.
C2_Witness ==
    /\ script = "build_catalog" /\ pc = "failed" /\ err.type = "ValueError"
    /\ \E k \in 1..Len(paragraphs) : paragraphs[k] = "Producer's Note"
    /\ \A k \in 1..Len(paragraphs) : paragraphs[k] # "Producer~s Note"
    /\ story = <<>>

RECURSIVE IsSubseq(_, _)
\* a is b with some elements left out.
IsSubseq(a, b) ==
    IF a = <<>> THEN TRUE
    ELSE IF b = <<>> THEN FALSE
    ELSE IF Head(a) = Head(b) THEN IsSubseq(Tail(a), Tail(b))
    ELSE IsSubseq(a, Tail(b))

StoryComplete == pc \in {"build", "done"} \/ (pc = "failed" /\ err.type = "BuildError")

HeadingsInExpectedOrder ==
    \A i \in 1..(NumHeadings - 1) : index[Headings[i]] < index[Headings[i + 1]]

\* The paragraphs between heading i and the next heading (the end, for the last).
SectionSlice(i) ==
    LET lo == index[Headings[i]] + 1
        hi == IF i = NumHeadings THEN Len(paragraphs) ELSE index[Headings[i + 1]]
    IN SubSeq(paragraphs, lo + 1, hi)

\* The texts of the paragraphs (captions aside) the story holds between the banner
\* of heading i and the next banner.
RenderedUnder(i) ==
    LET banners == {k \in 1..Len(story) : story[k].kind = "Header"}
        at == CHOOSE k \in banners : story[k].text = Headings[i]
                /\ \A j \in banners : story[j].text = Headings[i] => k <= j
        later == {k \in banners : k > at}
        stop == IF later = {} THEN Len(story) + 1
                ELSE CHOOSE k \in later : \A j \in later : k <= j
        body == SelectSeq(SubSeq(story, at + 1, stop - 1),
                          LAMBDA e : e.kind = "Paragraph" /\ e.style # "caption")
    IN [k \in 1..Len(body) |-> body[k].text]

SectionRendered(i) == IsSubseq(SectionSlice(i), RenderedUnder(i))

\* C3: when the twelve headings occur in the expected order, every section banner is
\* followed in the story by every paragraph between its heading and the next heading,
\* in source order, none omitted, the Logline section included.
C3_EverySectionComplete ==
    (script = "build_catalog" /\ StoryComplete /\ HeadingsInExpectedOrder) =>
        \A i \in 1..NumHeadings : SectionRendered(i)

\* What the code does do: every section but Logline is complete.
C3_AllButLogline ==
    (script = "build_catalog" /\ StoryComplete /\ HeadingsInExpectedOrder) =>
        \A i \in (1..NumHeadings) \ {3} : RenderedUnder(i) = SectionSlice(i)

\* The images of the story in the order the code places them.
ImageOrder ==
    <<"photo01.png", "photo02.jpeg", "photo03.png", "photo04.jpeg", "photo05.jpeg",
      "photo06.jpeg", "photo09.png", "photo10.png", "photo12.png", "photo13.jpeg">>

\* The number of paragraphs between heading i and the next heading of the list.
BodyParagraphCount(i) ==
    LET n == index[Headings[i + 1]] - index[Headings[i]] - 1
    IN IF n > 0 THEN n ELSE 0

\* The images the claim expects for the sizes of the two sections.
ImagePresent(f) ==
    CASE f = "photo04.jpeg" -> BodyParagraphCount(4) >= 1
      [] f = "photo05.jpeg" -> BodyParagraphCount(4) >= 2
      [] f = "photo06.jpeg" -> BodyParagraphCount(4) >= 3
      [] f = "photo09.png" -> BodyParagraphCount(4) >= 5
      [] f = "photo10.png" -> BodyParagraphCount(5) >= 1
      [] f = "photo12.png" -> BodyParagraphCount(5) >= 3
      [] OTHER -> TRUE

SpacerH(h) == [kind |-> "Spacer", text |-> h, markup |-> "", style |-> ""]
SizedImage(path, size) ==
    [kind |-> "Image", text |-> path, markup |-> "", style |-> "",
     width |-> size.width, height |-> size.height]
LogoSize == [width |-> Frac(5 * Inch, 2), height |-> Frac(5 * Inch, 2)]

section_keywords ==
    {"title", "director", "writer", "producer", "production", "cinematographer",
     "synopsis", "story", "plot", "cast", "crew", "credits", "festival",
     "award", "review", "biography", "bio"}
image_keywords == {"synopsis", "story", "plot", "description"}

\* str.lower() on the words of the vocabulary.
LowerWord(w) ==
    CASE w = "Synopsis" -> "synopsis"
      [] w = "Biography" -> "biography"
      [] w = "NOTES" -> "notes"
      [] w = "Bio" -> "bio"
      [] OTHER -> w

\* "keyword in text_lower": a substring test; the only keyword that is a proper
\* substring of a word of the vocabulary is 'bio' in 'biography'.
InLower(keyword, p) ==
    \E w \in p.words :
        \/ LowerWord(w) = keyword
        \/ keyword = "bio" /\ LowerWord(w) = "biography"

AnyKeyword(keywords, p) == \E keyword \in keywords : InLower(keyword, p)

\* Paragraph(...) parses its text when constructed and raises ValueError on markup
\* it cannot parse.
ParagraphOrRaise(p, markup, style) ==
    IF p.wellformed
    THEN Ok(<<Para(p.text, markup, style)>>)
    ELSE [raised |-> Raise("ValueError", p.text), elements |-> <<>>]

\* A plausible slip: a text of exactly 70 characters counts as short.
is_headingUpTo70(p, idx) ==
    IF idx < 10 THEN TRUE
    ELSE IF AnyKeyword(section_keywords, p) THEN TRUE
    ELSE p.len <= 70 /\ (p.upper \/ p.colon)

is_heading(p, idx) ==
    IF idx < 10 THEN TRUE
    ELSE IF AnyKeyword(section_keywords, p) THEN TRUE
    ELSE p.len < 70 /\ (p.upper \/ p.colon)

\* A plausible slip: the position near the end is off by one.
should_addOffByOne(p, idx, total) ==
    IF AnyKeyword(image_keywords, p) THEN TRUE
    ELSE IF idx % 12 = 0 /\ idx > 10 THEN TRUE
    ELSE idx = total - 4

should_add(p, idx, total) ==
    IF AnyKeyword(image_keywords, p) THEN TRUE
    ELSE IF idx % 12 = 0 /\ idx > 10 THEN TRUE
    ELSE idx = total - 5

\* The try block that places one image: Image(...) is constructed first (main loop)
\* or after the leading spacer (trailing loop); the description paragraph, when
\* there is one, is constructed after the image was appended.
ImageBlock(image, unloadable, files, lead, leadFirst, max_width, max_height, tail) ==
    LET size == get_image_dimensions(files[image.path], max_width, max_height)
        desc == [text |-> image.desc, wellformed |-> image.desc_wellformed]
        head == <<SpacerH(lead), SizedImage(image.path, size)>>
    IN IF image.path \in unloadable
       THEN [raised |-> Raise("OSError", image.path),
             elements |-> IF leadFirst THEN <<SpacerH(lead)>> ELSE <<>>]
       ELSE IF image.desc = ""
       THEN Ok(head \o <<SpacerH(tail)>>)
       ELSE IF ~desc.wellformed
       THEN [raised |-> Raise("ValueError", image.desc), elements |-> head]
       ELSE Ok(head \o <<SpacerH("0.1in"), Para(image.desc, "desc_html", "image_desc_style"),
                         SpacerH(tail)>>)

\* One iteration of "while content_index < len(main_content)".
MainIteration(content, regular, unloadable, files, ci, ii) ==
    LET p == content[ci + 1]
        para == IF is_heading(p, ci)
                THEN ParagraphOrRaise(p, "heading_html", "heading_style")
                ELSE ParagraphOrRaise(p, "", "body_style")
        ci1 == ci + 1
        adds == ii < Len(regular) /\ should_add(p, ci1, Len(content))
        block == ImageBlock(regular[ii + 1], unloadable, files, "0.25in", FALSE,
                            DefaultMaxWidth, DefaultMaxHeight, "0.25in")
        \* image_index += 1 is the last statement of the try and of the except
        ii1 == IF adds THEN ii + 1 ELSE ii
        spacing == IF ci1 % 5 = 0 THEN <<SpacerH("0.05in")>> ELSE <<>>
    IN IF para.raised.type # "none"
       THEN [raised |-> para.raised, elements |-> <<>>, content_index |-> ci, image_index |-> ii]
       ELSE [raised |-> NoError,
             elements |-> para.elements \o (IF adds THEN block.elements ELSE <<>>) \o spacing,
             content_index |-> ci1, image_index |-> ii1]

\* One iteration of "while image_index < len(regular_images)".
TrailingIterationSkipsOnError(regular, unloadable, files, ii) ==
    LET block == ImageBlock(regular[ii + 1], unloadable, files, "0.3in", TRUE,
                            DefaultMaxWidth, DefaultMaxHeight, "0.25in")
    IN [elements |-> block.elements,
        image_index |-> IF block.raised.type = "none" THEN ii + 1 ELSE ii + 2]

TrailingIteration(regular, unloadable, files, ii) ==
    LET block == ImageBlock(regular[ii + 1], unloadable, files, "0.3in", TRUE,
                            DefaultMaxWidth, DefaultMaxHeight, "0.25in")
    IN [elements |-> block.elements,
        \* image_index += 1 closes the try block and the except block alike
        image_index |-> IF block.raised.type = "none" THEN ii + 1 ELSE ii + 1]

\* A plausible slip: the loop for the remaining images is left out.
NextLoopWithoutTrailing(content, regular, ci, ii) ==
    IF ci < Len(content) THEN "main_loop" ELSE "biography"

\* The loop tests after the statement that just ran.
NextLoop(content, regular, ci, ii) ==
    IF ci < Len(content) THEN "main_loop"
    ELSE IF ii < Len(regular) THEN "trailing_loop"
    ELSE "biography"

\* for i, text in enumerate(main_content): the first paragraph containing 'bio'
\* ('biography' contains it), 0 when there is none.
FirstBio(content) ==
    LET hits == {i \in 1..Len(content) : InLower("bio", content[i])}
    IN IF hits = {} THEN 0 ELSE CHOOSE i \in hits : \A k \in hits : i <= k

RECURSIVE BioTexts(_, _, _)
\* for j in range(i + 1, min(i + 15, len(main_content))), 1-based position j.
BioTexts(content, j, hi) ==
    IF j > hi THEN <<>>
    ELSE IF AnyKeyword(section_keywords, content[j]) /\ content[j].len < 80 THEN <<>>
    ELSE <<content[j]>> \o BioTexts(content, j + 1, hi)

Min(a, b) == IF a < b THEN a ELSE b

RECURSIVE ParagraphsOrRaise(_, _, _)
\* story.append(Paragraph(t, style)) for each t, up to the first that raises.
ParagraphsOrRaise(ps, markup, style) ==
    IF ps = <<>> THEN Ok(<<>>)
    ELSE LET first == ParagraphOrRaise(Head(ps), markup, style)
             rest == ParagraphsOrRaise(Tail(ps), markup, style)
         IN IF first.raised.type # "none" THEN first
            ELSE [raised |-> rest.raised, elements |-> first.elements \o rest.elements]

\* --- what create_catalog finds on disk ---

MaxContent == 13
MaxImages == 3

ContentKinds ==
    {"plain", "label", "border_label", "long_label", "shout", "synopsis", "description",
     "biography", "long_bio", "essay", "broken"}

ContentParagraph(kind, i) ==
    LET base == [text |-> kind \o " " \o ToString(i), words |-> {"lorem"}, len |-> 100,
                 upper |-> FALSE, colon |-> FALSE, wellformed |-> TRUE]
    IN CASE kind = "label" -> [base EXCEPT !.len = 20, !.colon = TRUE]
         [] kind = "border_label" -> [base EXCEPT !.len = 70, !.colon = TRUE]
         [] kind = "long_label" -> [base EXCEPT !.colon = TRUE]
         [] kind = "shout" -> [base EXCEPT !.words = {"NOTES"}, !.len = 5, !.upper = TRUE]
         [] kind = "synopsis" -> [base EXCEPT !.words = {"Synopsis"}, !.len = 8]
         [] kind = "description" -> [base EXCEPT !.words = {"lorem", "description"}]
         [] kind = "biography" -> [base EXCEPT !.words = {"Biography"}, !.len = 9]
         [] kind = "long_bio" -> [base EXCEPT !.words = {"lorem", "Bio"}, !.len = 90]
         [] kind = "border_bio" -> [base EXCEPT !.words = {"lorem", "Bio"}, !.len = 80]
         [] kind = "essay" -> [base EXCEPT !.len = 160]
         [] kind = "broken" -> [base EXCEPT !.wellformed = FALSE]
         [] OTHER -> base

EmptyParagraph(t) ==
    [text |-> t, words |-> {}, len |-> Len(t), upper |-> FALSE, colon |-> FALSE,
     wellformed |-> TRUE]

\* para.text.strip() is empty
StripIsEmpty(p) == p.text \in {"", " "}

\* n content paragraphs, plain but for the one at position pos (none when pos = 0),
\* with an empty paragraph after every third one.
MainDocument(n, pos, kind) ==
    Flatten([i \in 1..n |->
        <<ContentParagraph(IF i = pos THEN kind ELSE "plain", i)>>
            \o (IF i % 3 = 0 THEN <<EmptyParagraph(IF i % 2 = 0 THEN "" ELSE " ")>> ELSE <<>>)])

MainDocuments ==
    {MainDocument(n, 0, "plain") : n \in 0..MaxContent}
        \cup {MainDocument(n, pos, kind) :
                n \in 1..MaxContent, pos \in 1..MaxContent, kind \in ContentKinds \ {"plain"}}

BaseDocument == MainDocument(2, 0, "plain")

\* Documents with a biography: n paragraphs, plain but for one containing 'bio' at
\* position b and another special one at position s.
MaxBioContent == 16

BioDocument(n, b, bkind, s, skind) ==
    [i \in 1..n |->
        ContentParagraph(IF i = b THEN bkind ELSE IF i = s THEN skind ELSE "plain", i)]

BioDocuments ==
    {BioDocument(n, b, bkind, s, skind) :
        n \in {MaxBioContent - 1, MaxBioContent}, b \in 1..MaxBioContent,
        s \in 1..MaxBioContent, bkind \in {"biography", "long_bio"},
        skind \in {"plain", "synopsis", "biography", "long_bio", "border_bio"}}

\* The relationships of photos.docx: a part that is no image, m images, and an
\* image whose blob cannot be written.
PhotoRels(m) ==
    <<[target_ref |-> "styles.xml", ext |-> ".xml", image |-> FALSE, writes |-> TRUE]>>
        \o [i \in 1..m |->
                [target_ref |-> "media/image" \o ToString(i),
                 ext |-> IF i % 3 = 1 THEN ".jpeg" ELSE IF i % 3 = 2 THEN "" ELSE ".png",
                 image |-> TRUE, writes |-> TRUE]]
        \o (IF m > 0
            THEN <<[target_ref |-> "media/image0.png", ext |-> ".png", image |-> TRUE,
                    writes |-> FALSE]>>
            ELSE <<>>)

\* The paragraphs of photos.docx: text, len(text.strip()), text.strip().isupper().
PhotoText(raw, n, upper, wellformed) ==
    [raw |-> raw, len |-> n, upper |-> upper, wellformed |-> wellformed]

PhotoParagraphs(captionsParse) ==
    <<PhotoText(Raw("", "", ""), 0, FALSE, TRUE),
      PhotoText(Raw("", "PRODUCTION STILLS", " "), 17, TRUE, TRUE),
      PhotoText(Raw("", "Still 1", ""), 7, FALSE, TRUE),
      PhotoText(Raw(" ", "On location at the harbour", ""), 26, FALSE, captionsParse),
      PhotoText(Raw(" ", "", ""), 0, FALSE, TRUE),
      PhotoText(Raw("", "", ""), 0, FALSE, TRUE),
      PhotoText(Raw("", "The crew at dawn", " "), 16, FALSE, TRUE)>>

\* os.path.join(temp_dir, f"image_{i}{image_ext}"), i the 0-based position of the
\* relationship.
ImagePath(i, ext) == "image_" \o ToString(i) \o (IF ext = "" THEN ".png" ELSE ext)

ExtractedPaths(m) == {ImagePath(i, PhotoRels(m)[i + 1].ext) : i \in 1..m}

\* What PIL reads from the extracted files.
ExtractedFiles(m) ==
    [path \in ExtractedPaths(m) |->
        CASE path = ImagePath(1, ".jpeg") -> [opens |-> TRUE, w |-> 300, h |-> 200]
          [] path = ImagePath(2, "") -> [opens |-> TRUE, w |-> 800, h |-> 1600]
          [] path = ImagePath(3, ".png") -> [opens |-> TRUE, w |-> 500, h |-> 0]
          [] OTHER -> [opens |-> FALSE, w |-> 0, h |-> 0]]

\* At most one of the extracted files is one reportlab's Image(...) cannot load.
UnloadableSets(m) == {{}} \cup {{path} : path \in ExtractedPaths(m)}

PhotoStates == {"ok", "missing", "unreadable", "bad_caption"}
LogoStates == {"absent", "ok", "unloadable"}

InitFinal ==
    /\ script = "final_catalog"
    /\ pc = "read_main"
    /\ err = NoError
    /\ \E document \in MainDocuments \cup BioDocuments, m \in 0..MaxImages,
          main_docx \in BOOLEAN, photos \in PhotoStates, logo \in LogoStates :
        \E unloadable \in UnloadableSets(m) :
            /\ \/ main_docx /\ photos = "ok" /\ logo = "ok" /\ document \in MainDocuments
               \/ document = BaseDocument /\ unloadable = {}
               \/ /\ document \in BioDocuments
                  /\ main_docx /\ photos = "ok" /\ logo = "absent" /\ m = 1 /\ unloadable = {}
            /\ env = [main_docx |-> main_docx, document |-> document,
                      photos |-> photos, rels |-> PhotoRels(m),
                      photo_paragraphs |-> PhotoParagraphs(photos # "bad_caption"),
                      files |-> ExtractedFiles(m), unloadable |-> unloadable,
                      logo |-> logo]
    /\ story = <<>>
    /\ builds = 0
    /\ IdlePure /\ IdleBuild /\ IdleFinal /\ IdleTitle

\* --- extract_images_with_descriptions ---

\* image_paths: (i, path) for the relationships with "image" in target_ref whose blob
\* is written; a failing write is printed and skipped.
ImagePaths(rels) ==
    LET positions == [k \in 1..Len(rels) |-> k]
        Extracted(k) == rels[k].image /\ rels[k].writes
        kept == SelectSeq(positions, Extracted)
    IN [n \in 1..Len(kept) |-> [i |-> kept[n] - 1, path |-> ImagePath(kept[n] - 1, rels[kept[n]].ext)]]

\* desc for the i-th extracted image (0-based): the first paragraph of window
\* range(max(0, i*5), min(len(para_texts), (i+1)*5 + 3)) that is non-empty, has
\* 10 < len < 200 and is not upper case.
Describes(t) == StripText(t.raw) # "" /\ 10 < t.len /\ t.len < 200 /\ ~t.upper

Description(para_texts, i) ==
    LET window == {j \in (i * 5)..(Min(Len(para_texts), (i + 1) * 5 + 3) - 1) :
                      Describes(para_texts[j + 1])}
        first == CHOOSE j \in window : \A k \in window : j <= k
    IN IF i < Len(para_texts) /\ window # {}
       THEN [desc |-> StripText(para_texts[first + 1].raw),
             desc_wellformed |-> para_texts[first + 1].wellformed]
       ELSE [desc |-> "", desc_wellformed |-> TRUE]

extract_images_with_descriptions(photos, rels, para_texts) ==
    LET image_paths == ImagePaths(rels)
        images == [n \in 1..Len(image_paths) |->
                      LET d == Description(para_texts, n - 1)
                      IN [path |-> image_paths[n].path, desc |-> d.desc,
                          desc_wellformed |-> d.desc_wellformed]]
    IN IF photos = "missing"
       \* Document(docx_path) raises before tempfile.mkdtemp()
       THEN [raised |-> Raise("PackageNotFoundError", "photos.docx"),
             temp_dir |-> "absent", images |-> <<>>]
       ELSE IF photos = "unreadable"
       \* an error while the paragraphs are read, after tempfile.mkdtemp()
       THEN [raised |-> Raise("Exception", "photos.docx paragraphs"),
             temp_dir |-> "exists", images |-> <<>>]
       ELSE [raised |-> NoError, temp_dir |-> "exists", images |-> images]

\* --- the steps of create_catalog ---

\* A plausible slip: the last image is not taken out of the regular ones.
RegularImagesKeepsLast(images) == images

\* regular_images = images_with_desc[:-1] if len(images_with_desc) > 1 else []
RegularImages(images) ==
    IF Len(images) > 1 THEN SubSeq(images, 1, Len(images) - 1) ELSE <<>>

FCFrame == UNCHANGED <<pureVars, script, env, builds, buildVars, titleVars>>

FC_ReadMain ==
    /\ script = "final_catalog" /\ pc = "read_main"
    /\ IF env.main_docx
       THEN /\ LET NotBlank(p) == ~StripIsEmpty(p)
               IN main_content' = SelectSeq(env.document, NotBlank)
            /\ pc' = "extract" /\ UNCHANGED err
       ELSE Fail(Raise("PackageNotFoundError", "main-content.docx")) /\ UNCHANGED main_content
    /\ UNCHANGED <<story, images_with_desc, regular_images, biography_image,
                   content_index, image_index, temp_dir>>
    /\ FCFrame

FC_ExtractImages ==
    /\ script = "final_catalog" /\ pc = "extract"
    /\ LET out == extract_images_with_descriptions(env.photos, env.rels, env.photo_paragraphs)
           n == Len(out.images)
       IN /\ temp_dir' = out.temp_dir
          /\ IF out.raised.type # "none"
             THEN Fail(out.raised)
                  /\ UNCHANGED <<images_with_desc, regular_images, biography_image>>
             ELSE /\ images_with_desc' = out.images
                  /\ biography_image' = IF n > 0 THEN out.images[n] ELSE NoImage
                  /\ regular_images' = RegularImages(out.images)
                  /\ pc' = "title_page" /\ UNCHANGED err
    /\ UNCHANGED <<story, main_content, content_index, image_index>>
    /\ FCFrame

\* The logo is optional: a missing file is skipped, a failing Image(...) is swallowed.
LogoElements(logo) ==
    IF logo = "ok" THEN <<SizedImage("LOGO.jpg", LogoSize), SpacerH("0.4in")>> ELSE <<>>

TitleParagraphs(content) ==
    LET title == IF content[1].len < 120 THEN content[1]
                 ELSE [text |-> "Film Catalog", wellformed |-> TRUE]
        titled == ParagraphOrRaise(title, "title_html", "title_style")
        subtitled == IF Len(content) > 1 /\ content[2].len < 150
                     THEN ParagraphOrRaise(content[2], "subtitle_html", "subtitle_style")
                     ELSE Ok(<<>>)
    IN IF content = <<>> THEN Ok(<<>>)
       ELSE IF titled.raised.type # "none" THEN titled
       ELSE [raised |-> subtitled.raised, elements |-> titled.elements \o subtitled.elements]

FC_TitlePage ==
    /\ script = "final_catalog" /\ pc = "title_page"
    /\ LET titles == TitleParagraphs(main_content)
           front == <<SpacerH("1in")>> \o LogoElements(env.logo) \o titles.elements
       IN IF titles.raised.type # "none"
          THEN story' = story \o front /\ Fail(titles.raised)
               /\ UNCHANGED <<content_index, image_index>>
          ELSE /\ story' = story \o front \o <<PageBreak>>
               /\ image_index' = 0
               /\ content_index' = 0
               /\ pc' = NextLoop(main_content, regular_images, 0, 0)
               /\ UNCHANGED err
    /\ UNCHANGED <<main_content, images_with_desc, regular_images, biography_image, temp_dir>>
    /\ FCFrame

FC_MainIteration ==
    /\ script = "final_catalog" /\ pc = "main_loop"
    /\ content_index < Len(main_content)
    /\ LET out == MainIteration(main_content, regular_images, env.unloadable, env.files,
                                content_index, image_index)
       IN /\ story' = story \o out.elements
          /\ content_index' = out.content_index
          /\ image_index' = out.image_index
          /\ IF out.raised.type # "none"
             THEN Fail(out.raised)
             ELSE /\ pc' = NextLoop(main_content, regular_images,
                                    out.content_index, out.image_index)
                  /\ UNCHANGED err
    /\ UNCHANGED <<main_content, images_with_desc, regular_images, biography_image, temp_dir>>
    /\ FCFrame

FC_TrailingIteration ==
    /\ script = "final_catalog" /\ pc = "trailing_loop"
    /\ image_index < Len(regular_images)
    /\ LET out == TrailingIteration(regular_images, env.unloadable, env.files, image_index)
       IN /\ story' = story \o out.elements
          /\ image_index' = out.image_index
          /\ pc' = NextLoop(main_content, regular_images, content_index, out.image_index)
    /\ UNCHANGED <<err, main_content, images_with_desc, regular_images, biography_image,
                   content_index, temp_dir>>
    /\ FCFrame

\* The biography image: the whole block is inside try/except, what was appended
\* before the exception stays.
BiographyImage(image, unloadable, files) ==
    IF image.path = "None" THEN <<>>
    ELSE ImageBlock(image, unloadable, files, "0.2in", FALSE,
                    BioMaxWidth, BioMaxHeight, "0.3in").elements

\* A plausible slip: the range takes one paragraph more.
BiographyTextUpTo15(content) ==
    LET i == FirstBio(content)
    IN IF i = 0 THEN Ok(<<>>)
       ELSE ParagraphsOrRaise(BioTexts(content, i + 1, Min(i + 15, Len(content))),
                              "", "body_style")

BiographyText(content) ==
    LET i == FirstBio(content)
    IN IF i = 0 THEN Ok(<<>>)
       ELSE ParagraphsOrRaise(BioTexts(content, i + 1, Min(i + 14, Len(content))),
                              "", "body_style")

FC_Biography ==
    /\ script = "final_catalog" /\ pc = "biography"
    /\ LET texts == BiographyText(main_content)
           section == <<PageBreak, Para("Biography", "bio_heading_html", "bio_heading_style")>>
                        \o BiographyImage(biography_image, env.unloadable, env.files)
                        \o texts.elements
       IN /\ story' = story \o section
          /\ IF texts.raised.type # "none" THEN Fail(texts.raised)
             ELSE pc' = "build" /\ UNCHANGED err
    /\ UNCHANGED finalVars
    /\ FCFrame

FC_Build ==
    /\ script = "final_catalog" /\ pc = "build"
    /\ DocBuild("cleanup")
    /\ UNCHANGED <<pureVars, script, env, story, buildVars, finalVars, titleVars>>

\* shutil.rmtree(temp_dir, ignore_errors=True)
FC_Cleanup ==
    /\ script = "final_catalog" /\ pc = "cleanup"
    /\ temp_dir' = "removed"
    /\ pc' = "done"
    /\ UNCHANGED <<err, story, main_content, images_with_desc, regular_images,
                   biography_image, content_index, image_index>>
    /\ FCFrame

NextFinal ==
    \/ FC_ReadMain \/ FC_ExtractImages \/ FC_TitlePage \/ FC_MainIteration
    \/ FC_TrailingIteration \/ FC_Biography \/ FC_Build \/ FC_Cleanup

SpecFinal == InitFinal /\ [][NextFinal]_vars

(***************************************************************************)
(* Claims about create_catalog                                             *)
(***************************************************************************)

Ended == pc \in {"done", "failed"}

\* The statements still ahead of a run of create_catalog, counted generously: the
\* stage the run is in, and inside a loop the entries the loop has not yet visited.
Stage ==
    CASE pc = "read_main" -> 8 [] pc = "extract" -> 7 [] pc = "title_page" -> 6
      [] pc = "main_loop" -> 5 [] pc = "trailing_loop" -> 4 [] pc = "biography" -> 3
      [] pc = "build" -> 2 [] pc = "cleanup" -> 1 [] OTHER -> 0

Remaining ==
    CASE pc = "main_loop" -> Len(main_content) - content_index
      [] pc = "trailing_loop" -> Len(regular_images) - image_index
      [] OTHER -> 0

Rank == Stage * (Len(env.document) + Len(env.rels) + 1) + Remaining

\* The guard of the statement the run is at: a loop body needs its loop test, every
\* other statement runs as soon as it is reached.
CanStep ==
    CASE pc = "main_loop" -> content_index < Len(main_content)
      [] pc = "trailing_loop" -> image_index < Len(regular_images)
      [] OTHER -> ~Ended

\* C6: create_catalog terminates for every list of content paragraphs and every
\* list of images: each iteration of the main loop that completes advances
\* content_index by exactly one (one that raises ends the run), each iteration of
\* the trailing loop advances image_index by exactly one and never ends the run,
\* whether the image was added or adding it raised; a run that has not ended is
\* at a statement it can execute, and every step lowers Rank, a natural number,
\* so every run ends after finitely many steps.
C6_CreateCatalogTerminates ==
    /\ [][pc = "main_loop" /\ pc' # "failed" => content_index' = content_index + 1]_vars
    /\ [][pc = "trailing_loop" => image_index' = image_index + 1 /\ pc' # "failed"]_vars
    /\ [][Rank' < Rank]_vars
    /\ [](Rank >= 0)
    /\ [](~Ended => CanStep)

\* A finished run whose trailing loop met an image that raised (its leading spacer
\* is followed by the next iteration's spacer) and one that was added.
C6_Witness ==
    /\ script = "final_catalog" /\ pc = "done"
    /\ content_index = Len(main_content)
    /\ image_index = Len(regular_images)
    /\ \E i, j \in 1..(Len(story) - 1) :
        /\ story[i] = SpacerH("0.3in") /\ story[i + 1] = SpacerH("0.3in")
        /\ story[j] = SpacerH("0.3in") /\ story[j + 1].kind = "Image"
        /\ story[j + 1].text # biography_image.path

\* Positions of the page breaks of the story: the first ends the title page, the
\* second opens the Biography section.
PageBreaks == {i \in DOMAIN story : story[i] = PageBreak}
NthBreak(n) ==
    CHOOSE i \in PageBreaks : Cardinality({k \in PageBreaks : k <= i}) = n

\* The elements the main loop and the trailing loop appended.
BodyContent ==
    IF Cardinality(PageBreaks) = 0 THEN <<>>
    ELSE IF Cardinality(PageBreaks) = 1 THEN SubSeq(story, NthBreak(1) + 1, Len(story))
    ELSE SubSeq(story, NthBreak(1) + 1, NthBreak(2) - 1)

\* The elements of the Biography section.
BiographySection ==
    IF Cardinality(PageBreaks) < 2 THEN <<>>
    ELSE SubSeq(story, NthBreak(2) + 1, Len(story))

Range(s) == {s[i] : i \in DOMAIN s}

\* The path of images_with_desc[-1]; "None" when nothing was extracted.
LastImagePath ==
    IF images_with_desc = <<>> THEN "None"
    ELSE images_with_desc[Len(images_with_desc)].path

\* What the step under way appends to the story.
Appended == SubSeq(story', Len(story) + 1, Len(story'))

LastImageKept ==
    script = "final_catalog" =>
        /\ images_with_desc # <<>> =>
            /\ biography_image = images_with_desc[Len(images_with_desc)]
            /\ LastImagePath \notin Range(ImagesOf(BodyContent))
        /\ Range(ImagesOf(BodyContent)) \subseteq
              {regular_images[i].path : i \in DOMAIN regular_images}
        /\ Range(ImagesOf(BiographySection)) \subseteq {biography_image.path} \ {"None"}
        /\ Len(images_with_desc) = 1 => ImagesOf(BodyContent) = <<>>
        /\ Len(images_with_desc) = 0 => ImagesOf(BiographySection) = <<>>

\* C11: the last extracted image is reserved for the Biography section: no step of
\* the main loop or of the trailing loop appends it, whatever the number of
\* extracted images; the body holds images of regular_images only, the Biography
\* section holds no image but the last extracted one; with exactly one image the
\* body holds no image, with none the Biography section holds none.
C11_LastImageReserved ==
    /\ [][(pc = "main_loop" \/ pc = "trailing_loop") =>
            LastImagePath \notin Range(ImagesOf(Appended))]_vars
    /\ []LastImageKept

\* A finished run with three extracted images: two in the body, the last one in
\* the Biography section.
C11_Witness ==
    /\ script = "final_catalog" /\ pc = "done"
    /\ Len(images_with_desc) = 3
    /\ Len(ImagesOf(BodyContent)) = 2
    /\ ImagesOf(BiographySection) = <<images_with_desc[3].path>>

\* What an attempt to add an image leaves in the story: the image, unless
\* Image(...) raised.
Attempt(image) == IF image.path \in env.unloadable THEN <<>> ELSE <<image.path>>

\* The images the attempts on the first n regular images leave, in order.
Attempts(n) == Flatten([i \in 1..n |-> Attempt(regular_images[i])])

\* C12: when the Biography section starts, image_index equals len(regular_images):
\* a step of the main loop or of the trailing loop either leaves image_index and
\* appends no image, or attempts regular_images[image_index] and adds one to
\* image_index whether or not the attempt raised; so the images of the body are
\* those of the attempts on the first image_index regular images, in extraction
\* order, none twice and none passed over.
C12_EveryRegularImageAttemptedOnce ==
    /\ [][(pc = "main_loop" \/ pc = "trailing_loop") =>
            \/ image_index' = image_index /\ ImagesOf(Appended) = <<>>
            \/ /\ image_index < Len(regular_images)
               /\ image_index' = image_index + 1
               /\ ImagesOf(Appended) = Attempt(regular_images[image_index + 1])]_vars
    /\ [](script = "final_catalog" =>
            /\ image_index <= Len(regular_images)
            /\ ImagesOf(BodyContent) = Attempts(image_index)
            /\ pc \in {"biography", "build", "cleanup", "done"} =>
                image_index = Len(regular_images))

\* The Biography section is about to start after one regular image was added by
\* the main loop and the attempt on the other raised in the trailing loop.
C12_Witness ==
    /\ script = "final_catalog" /\ pc = "biography"
    /\ Len(regular_images) = 2 /\ image_index = 2
    /\ regular_images[2].path \in env.unloadable
    /\ ImagesOf(BodyContent) = <<regular_images[1].path>>
    /\ \E i \in 1..(Len(story) - 1) :
        story[i] = SpacerH("0.25in") /\ story[i + 1].kind = "Image"
    /\ story[Len(story)] = SpacerH("0.3in")

\* C13: every run of create_catalog that created the temporary image directory
\* has removed it when the run ends, runs ended by an exception included.
C13_TempDirRemoved ==
    (script = "final_catalog" /\ Ended /\ temp_dir # "absent") => temp_dir = "removed"

\* An iteration of the main loop that completes.
MainLoopStep == pc = "main_loop" /\ pc' # "failed"

\* The paragraphs the main loop renders from the content, as <<text, style>>.
ContentParagraphs(elements) ==
    LET FromContent(e) == e.kind = "Paragraph" /\ e.style \in {"heading_style", "body_style"}
        kept == SelectSeq(elements, FromContent)
    IN [i \in DOMAIN kept |-> kept[i].text]

\* The k-th paragraph of N calls for an image: it contains 'synopsis', 'story',
\* 'plot' or 'description' in any case, or k is a multiple of 12, or k = N - 5.
CallsForImage(p, k, N) ==
    \/ \E w \in p.words : LowerWord(w) \in {"synopsis", "story", "plot", "description"}
    \/ k % 12 = 0
    \/ k = N - 5

\* An image is due after the paragraph the iteration under way emits.
ImageDue ==
    /\ image_index < Len(regular_images)
    /\ CallsForImage(main_content[content_index + 1], content_index + 1, Len(main_content))

EmitsOneParagraph ==
    ContentParagraphs(Appended) = <<main_content[content_index + 1].text>>

\* C19 as stated: every iteration of the main loop emits its paragraph once and at
\* most one image after it, and inserts an image if and only if a regular image
\* remains and the paragraph calls for one.
C19_ImageInsertedWhenDue ==
    [][MainLoopStep =>
        /\ EmitsOneParagraph
        /\ Len(ImagesOf(Appended)) <= 1
        /\ ImagesOf(Appended) # <<>> <=> ImageDue]_vars

\* C19, amended: every iteration of the main loop that completes emits its
\* paragraph once, so the paragraphs of the body are the content paragraphs in
\* source order; after the k-th paragraph the next regular image is attempted
\* (image_index advances) if and only if image_index < len(regular_images) and the
\* paragraph calls for one; the attempt inserts that one image unless Image(...)
\* raises, and nothing else inserts an image.
C19_ImageAttemptedWhenDue ==
    /\ [][MainLoopStep =>
            /\ EmitsOneParagraph
            /\ Len(ImagesOf(Appended)) <= 1
            /\ image_index' = (IF ImageDue THEN image_index + 1 ELSE image_index)
            /\ ImagesOf(Appended) =
                  (IF ImageDue THEN Attempt(regular_images[image_index + 1]) ELSE <<>>)]_vars
    /\ []((script = "final_catalog"
            /\ pc \in {"main_loop", "trailing_loop", "biography", "build", "cleanup", "done"})
          => ContentParagraphs(BodyContent) =
                [i \in 1..content_index |-> main_content[i].text])

\* Thirteen plain paragraphs and two regular images: the first was inserted after
\* paragraph 8 = 13 - 5, the attempt on the second after paragraph 12 raised.
C19_Witness ==
    /\ script = "final_catalog" /\ pc = "main_loop"
    /\ Len(main_content) = 13 /\ content_index = 12
    /\ \A i \in 1..13 : ~CallsForImage(main_content[i], 1, 0)
    /\ Len(regular_images) = 2 /\ image_index = 2
    /\ regular_images[2].path \in env.unloadable
    /\ ImagesOf(BodyContent) = <<regular_images[1].path>>

\* The paragraphs the main loop rendered, as <<text, markup, style>>.
RenderedContent(elements) ==
    LET FromContent(e) == e.kind = "Paragraph" /\ e.style \in {"heading_style", "body_style"}
        kept == SelectSeq(elements, FromContent)
    IN [i \in DOMAIN kept |-> <<kept[i].text, kept[i].markup, kept[i].style>>]

\* The paragraph at 0-based index idx is a heading: idx is below 10, or the
\* lower-cased text contains a section keyword, or the text is shorter than 70
\* characters and is upper case or contains ':'.
HeadingAsClaimed(p, idx) ==
    \/ idx < 10
    \/ \E keyword \in section_keywords : InLower(keyword, p)
    \/ p.len < 70 /\ (p.upper \/ p.colon)

\* C20: the main loop renders each paragraph once, as a heading if its 0-based
\* index is below 10, or its lower-cased text contains a section keyword, or it is
\* shorter than 70 characters and upper case or with a ':', and as body text
\* otherwise.
C20_HeadingOrBody ==
    (script = "final_catalog"
        /\ pc \in {"main_loop", "trailing_loop", "biography", "build", "cleanup", "done"})
    => RenderedContent(BodyContent) =
          [i \in 1..content_index |->
              IF HeadingAsClaimed(main_content[i], i - 1)
              THEN <<main_content[i].text, "heading_html", "heading_style">>
              ELSE <<main_content[i].text, "", "body_style">>]

\* The main loop is over; past index 9 it rendered a short label as a heading and
\* a plain paragraph as body text.
C20_Witness ==
    /\ script = "final_catalog" /\ pc = "biography"
    /\ Len(main_content) = 13 /\ content_index = 13
    /\ main_content[12].colon /\ main_content[12].len < 70
    /\ \E i, j \in DOMAIN BodyContent :
        /\ BodyContent[i] = Para(main_content[12].text, "heading_html", "heading_style")
        /\ BodyContent[j] = Para(main_content[13].text, "", "body_style")

\* The body paragraphs of the Biography section, as texts.
BiographyParagraphs ==
    LET Body(e) == e.kind = "Paragraph" /\ e.style = "body_style"
        kept == SelectSeq(BiographySection, Body)
    IN [i \in DOMAIN kept |-> kept[i].text]

\* The positions (from 1) of the content paragraphs whose lower-cased text
\* contains 'bio'.
BioPositions == {i \in DOMAIN main_content : InLower("bio", main_content[i])}

\* A paragraph that ends the biography text: it contains a section keyword and is
\* shorter than 80 characters.
EndsBiography(p) == p.len < 80 /\ \E keyword \in section_keywords : InLower(keyword, p)

\* The texts taken after the first paragraph containing 'bio': the following
\* paragraphs, fourteen at most, up to the first that ends the biography text.
BiographyAsClaimed ==
    IF BioPositions = {} THEN <<>>
    ELSE LET first == CHOOSE i \in BioPositions : \A k \in BioPositions : i <= k
             last == IF first + 14 < Len(main_content) THEN first + 14 ELSE Len(main_content)
             stops == {j \in (first + 1)..last : EndsBiography(main_content[j])}
             until == IF stops = {} THEN last
                      ELSE (CHOOSE j \in stops : \A k \in stops : j <= k) - 1
         IN [n \in 1..(until - first) |-> main_content[first + n].text]

\* C21: the biography text is taken after the first content paragraph whose
\* lower-cased text contains 'bio' and after no other: the following paragraphs
\* are appended in order up to the first that contains a section keyword and is
\* shorter than 80 characters, fourteen at most; nothing is appended when no
\* paragraph contains 'bio'.
C21_BiographyText ==
    (script = "final_catalog" /\ pc \in {"build", "cleanup", "done"})
        => BiographyParagraphs = BiographyAsClaimed

\* Fifteen paragraphs follow the first one containing 'bio': fourteen are
\* appended, a later one containing 'bio' among them, and the fifteenth is not.
C21_Witness ==
    /\ script = "final_catalog" /\ pc = "done"
    /\ 1 \in BioPositions /\ Len(main_content) = 16
    /\ Len(BiographyParagraphs) = 14
    /\ \E i \in BioPositions \cap 2..15 : BiographyParagraphs[i - 1] = main_content[i].text
    /\ \A n \in DOMAIN BiographyParagraphs : BiographyParagraphs[n] # main_content[16].text

(***************************************************************************)
(* The title scripts: generate_original_title_pdf.py,                      *)
(* restructure_original_title.py and generate_stateless_catalog_v2.py      *)
(*                                                                         *)
(* A line is a sequence of tokens: " ", ":", "<" (markup that reportlab's  *)
(* Paragraph cannot parse), digits and words; a heading phrase is one      *)
(* token, "~" in a token stands for the typographic apostrophe and "nbsp"  *)
(* for the no-break space.  The text of a flowable is a line.              *)
(***************************************************************************)

\* str.lower() on the tokens of the vocabulary that are not lower case already.
Lower(tok) ==
    CASE tok = "General information" -> "general information"
      [] tok = "CONTACT" -> "contact"
      [] tok = "Synopsis" -> "synopsis"
      [] tok = "Original title" -> "original title"
      [] tok = "Key" -> "key"
      [] tok = "Producer's Note" -> "producer's note"
      [] tok = "Producer~s Note" -> "producer~s note"
      [] OTHER -> tok

LowerLine(line) == [i \in DOMAIN line |-> Lower(line[i])]

RECURSIVE rstrip_colon(_)
\* str.rstrip(":")
rstrip_colon(line) ==
    IF line # <<>> /\ line[Len(line)] = ":"
    THEN rstrip_colon(SubSeq(line, 1, Len(line) - 1))
    ELSE line

\* unicodedata.normalize("NFKC", text): the no-break space becomes a space, the
\* typographic apostrophe has no compatibility mapping and stays.
NFKC(line) == [i \in DOMAIN line |-> IF line[i] = "nbsp" THEN " " ELSE line[i]]

\* str.isdigit()
isdigit(line) == line # <<>> /\ \A i \in DOMAIN line : line[i] \in {"7", "12"}

\* generate_stateless_catalog_v2.parse_content: candidate.rstrip(":").lower() of the
\* fifteen candidates, and the canonical section name of each.
heading_map_v2 ==
    ("general information" :> "General Information") @@ ("contact" :> "Contact")
        @@ ("logline" :> "Logline") @@ ("synopsis" :> "Synopsis")
        @@ ("artistic approach" :> "Artistic Approach")
        @@ ("director's notes" :> "Director's Notes")
        @@ ("producer's note" :> "Producer's Note")
        @@ ("finance plan" :> "Finance Plan")
        @@ ("outlook & distribution" :> "Outlook & Distribution")
        @@ ("biography" :> "Biography") @@ ("filmography" :> "Filmography")
        @@ ("festivals" :> "Festivals") @@ ("awards" :> "Awards")
        @@ ("tv broadcast" :> "TV Broadcast")
        @@ ("links to previous movie" :> "Links to Previous Movie")

\* restructure_original_title.parse_content: the same keys and the two headings
\* written with a typographic apostrophe.
heading_map ==
    heading_map_v2 @@ ("director~s notes" :> "Director's Notes")
        @@ ("producer~s note" :> "Producer's Note")

\* generate_original_title_pdf.parse_sections
title_section_keywords == heading_map_v2 @@ ("visual material" :> "Visual Material")

\* if current_section and current_content: sections[current_section] = current_content
SaveSection(acc) ==
    IF acc.current # "None" /\ acc.content # <<>>
    THEN (acc.current :> acc.content) @@ acc.sections
    ELSE acc.sections

RECURSIVE parse_sections_loopExactOnly(_, _)
\* A plausible slip: a heading is a line that equals a keyword, nothing else.
parse_sections_loopExactOnly(acc, ls) ==
    IF ls = <<>> THEN SaveSection(acc)
    ELSE LET line_stripped == strip(Head(ls))
             line_lower == rstrip_colon(LowerLine(line_stripped))
             found == {k \in DOMAIN title_section_keywords :
                          line_lower = <<k>>}
             next ==
                IF line_stripped = <<>>
                THEN IF acc.current # "None" /\ acc.content # <<>>
                     THEN [acc EXCEPT !.content = Append(@, <<>>)]
                     ELSE acc
                ELSE IF found # {}
                THEN [sections |-> SaveSection(acc),
                      current |-> title_section_keywords[CHOOSE k \in found : TRUE],
                      content |-> <<>>]
                ELSE IF acc.current # "None"
                THEN [acc EXCEPT !.content = Append(@, line_stripped)]
                ELSE acc
         IN parse_sections_loopExactOnly(next, Tail(ls))

RECURSIVE parse_sections_loop(_, _)
parse_sections_loop(acc, ls) ==
    IF ls = <<>> THEN SaveSection(acc)
    ELSE LET line_stripped == strip(Head(ls))
             line_lower == rstrip_colon(LowerLine(line_stripped))
             found == {k \in DOMAIN title_section_keywords :
                          \/ line_lower = <<k>>
                          \/ Len(line_lower) >= 2 /\ line_lower[1] = k /\ line_lower[2] = ":"}
             next ==
                IF line_stripped = <<>>
                THEN IF acc.current # "None" /\ acc.content # <<>>
                     THEN [acc EXCEPT !.content = Append(@, <<>>)]
                     ELSE acc
                ELSE IF found # {}
                THEN [sections |-> SaveSection(acc),
                      current |-> title_section_keywords[CHOOSE k \in found : TRUE],
                      content |-> <<>>]
                ELSE IF acc.current # "None"
                THEN [acc EXCEPT !.content = Append(@, line_stripped)]
                ELSE acc
         IN parse_sections_loop(next, Tail(ls))

parse_sections(ls) ==
    parse_sections_loop([sections |-> <<>>, current |-> "None", content |-> <<>>], ls)

RECURSIVE parse_content_loopStartsAnew(_, _, _, _)
\* A plausible slip: a heading that occurs again starts its list anew.
parse_content_loopStartsAnew(acc, ls, headings, skipsDigits) ==
    IF ls = <<>> THEN acc
    ELSE LET line == strip(Head(ls))
             key == LowerLine(rstrip_colon(line))
             Add(l) == IF acc.current = "Cover"
                       THEN [acc EXCEPT !.cover_lines = Append(@, l)]
                       ELSE [acc EXCEPT !.sections[acc.current] = Append(@, l)]
             next == IF line = <<>> THEN Add(<<>>)
                     ELSE IF skipsDigits /\ isdigit(line) THEN acc
                     ELSE IF Len(key) = 1 /\ key[1] \in DOMAIN headings
                     THEN [acc EXCEPT !.current = headings[key[1]],
                                      !.sections[headings[key[1]]] = <<>>]
                     ELSE Add(line)
         IN parse_content_loopStartsAnew(next, Tail(ls), headings, skipsDigits)

RECURSIVE parse_content_loop(_, _, _, _)
\* The loop of both parse_content functions; v2 alone skips digit-only lines.
parse_content_loop(acc, ls, headings, skipsDigits) ==
    IF ls = <<>> THEN acc
    ELSE LET line == strip(Head(ls))
             key == LowerLine(rstrip_colon(line))
             Add(l) == IF acc.current = "Cover"
                       THEN [acc EXCEPT !.cover_lines = Append(@, l)]
                       ELSE [acc EXCEPT !.sections[acc.current] = Append(@, l)]
             next == IF line = <<>> THEN Add(<<>>)
                     ELSE IF skipsDigits /\ isdigit(line) THEN acc
                     ELSE IF Len(key) = 1 /\ key[1] \in DOMAIN headings
                     THEN [acc EXCEPT !.current = headings[key[1]]]
                     ELSE Add(line)
         IN parse_content_loop(next, Tail(ls), headings, skipsDigits)

NoSections(headings) ==
    [cover_lines |-> <<>>, current |-> "Cover",
     sections |-> [name \in {headings[k] : k \in DOMAIN headings} |-> <<>>]]

\* restructure_original_title.parse_content
parse_content(ls) == parse_content_loop(NoSections(heading_map), ls, heading_map, FALSE)

\* A plausible slip: the test for lone page numbers is left out.
parse_content_v2KeepsDigits(ls) ==
    parse_content_loop(NoSections(heading_map_v2), [i \in DOMAIN ls |-> NFKC(ls[i])],
                       heading_map_v2, FALSE)

\* generate_stateless_catalog_v2.parse_content, on normalized.splitlines()
parse_content_v2(ls) ==
    parse_content_loop(NoSections(heading_map_v2), [i \in DOMAIN ls |-> NFKC(ls[i])],
                       heading_map_v2, TRUE)

\* " ".join(buffer)
Join(buffer) ==
    IF buffer = <<>> THEN <<>>
    ELSE Head(buffer) \o Flatten([i \in 1..(Len(buffer) - 1) |-> <<" ">> \o buffer[i + 1]])

RECURSIVE coalesce_loopDropsLast(_, _, _)
\* A plausible slip: the buffer is not flushed after the loop.
coalesce_loopDropsLast(ls, buffer, out) ==
    LET flushed == IF buffer # <<>> THEN Append(out, Join(buffer)) ELSE out
    IN IF ls = <<>> THEN out
       ELSE IF strip(Head(ls)) = <<>> THEN coalesce_loopDropsLast(Tail(ls), <<>>, flushed)
       ELSE coalesce_loopDropsLast(Tail(ls), Append(buffer, strip(Head(ls))), out)

RECURSIVE coalesce_loop(_, _, _)
coalesce_loop(ls, buffer, out) ==
    LET flushed == IF buffer # <<>> THEN Append(out, Join(buffer)) ELSE out
    IN IF ls = <<>> THEN flushed
       ELSE IF strip(Head(ls)) = <<>> THEN coalesce_loop(Tail(ls), <<>>, flushed)
       ELSE coalesce_loop(Tail(ls), Append(buffer, strip(Head(ls))), out)

\* The same function in the three scripts.
coalesce_paragraphs(ls) == coalesce_loop(ls, <<>>, <<>>)

\* --- the fields of the cover ---

\* A test on the words of a lowered line: "phrase in line" for the phrases the
\* scripts look for, each one token of the vocabulary or part of one.
HasPhrase(lowered, phrase) ==
    \E i \in DOMAIN lowered :
        \/ lowered[i] = phrase
        \/ phrase = "autobiographical documentary"
              /\ lowered[i] = "autobiographical documentary by"

StartsWith(lowered, phrase) == lowered # <<>> /\ HasPhrase(<<lowered[1]>>, phrase)
StartsWithColon(lowered, phrase) ==
    Len(lowered) >= 2 /\ lowered[1] = phrase /\ lowered[2] = ":"

\* line.split(":", 1)[1].strip() if ":" in line else other
AfterColon(line, other) ==
    IF Contains(line, ":") THEN strip(split1(line, ":")[2]) ELSE other

NoCoverInfo ==
    [f \in {"title", "subtitle", "original_title", "english_title", "format", "director",
            "production_company", "siret", "cinematographers", "editor",
            "sound_recordist"} |-> <<>>]

RECURSIVE extract_cover_info_loop(_, _)
\* generate_original_title_pdf.extract_cover_info, over lines[:cover_end_idx]
extract_cover_info_loop(info, ls) ==
    IF ls = <<>> THEN info
    ELSE LET s == strip(Head(ls))
             l == LowerLine(s)
             rest == Tail(ls)
             Set(f, v) == extract_cover_info_loop([info EXCEPT ![f] = v], rest)
             SetOnce(f, v) == IF info[f] = <<>> THEN Set(f, v) ELSE Set(f, info[f])
         IN CASE s = <<>> -> extract_cover_info_loop(info, rest)
              [] OTHER ->
                 IF HasPhrase(l, "stateless as wind") /\ HasPhrase(s, "2015")
                 THEN Set("title", s)
                 ELSE IF HasPhrase(l, "autobiographical documentary") THEN Set("subtitle", s)
                 ELSE IF StartsWithColon(l, "original title")
                 THEN Set("original_title", AfterColon(s, <<>>))
                 ELSE IF StartsWithColon(l, "title") /\ info["english_title"] = <<>>
                 THEN Set("english_title", AfterColon(s, <<>>))
                 ELSE IF HasPhrase(l, "autobiography documentary") /\ info["format"] = <<>>
                 THEN Set("format", s)
                 ELSE IF StartsWith(l, "director") /\ info["director"] = <<>>
                 THEN Set("director", AfterColon(s, s))
                 ELSE IF HasPhrase(l, "production company")
                 THEN IF Contains(s, ":") THEN Set("production_company", AfterColon(s, <<>>))
                      ELSE IF rest # <<>> /\ strip(Head(rest)) # <<>>
                      THEN Set("production_company", strip(Head(rest)))
                      ELSE extract_cover_info_loop(info, rest)
                 ELSE IF HasPhrase(l, "jala film") /\ info["production_company"] = <<>>
                 THEN Set("production_company", s)
                 ELSE IF StartsWithColon(l, "siret") THEN Set("siret", AfterColon(s, <<>>))
                 ELSE IF StartsWith(l, "cinematographer") /\ info["cinematographers"] = <<>>
                 THEN Set("cinematographers", AfterColon(s, s))
                 ELSE IF StartsWithColon(l, "editor") /\ info["editor"] = <<>>
                 THEN Set("editor", AfterColon(s, <<>>))
                 ELSE IF StartsWith(l, "sound recordist") /\ info["sound_recordist"] = <<>>
                 THEN Set("sound_recordist", AfterColon(s, <<>>))
                 ELSE extract_cover_info_loop(info, rest)

\* The cover ends at the first line containing "general information".
extract_cover_info(ls) ==
    LET ends == {i \in DOMAIN ls : HasPhrase(LowerLine(strip(ls[i])), "general information")}
        cover_end_idx == IF ends = {} THEN Len(ls)
                         ELSE (CHOOSE i \in ends : \A k \in ends : i <= k) - 1
    IN extract_cover_info_loop(NoCoverInfo, SubSeq(ls, 1, cover_end_idx))

NoCoverData ==
    [tagline |-> <<>>, subtitle |-> <<>>, original_title |-> <<>>, english_title |-> <<>>,
     format_label |-> <<>>, credits |-> <<>>]

RECURSIVE extract_cover_data_loop(_, _, _, _)
\* extract_cover_data of restructure_original_title (v2 = FALSE) and of
\* generate_stateless_catalog_v2 (v2 = TRUE); raised tells the uncaught exception.
extract_cover_data_loop(data, pending_label, ls, v2) ==
    IF ls = <<>> THEN [raised |-> NoError, data |-> data]
    ELSE LET line == strip(Head(ls))
             lowered == LowerLine(line)
             parts == split1(line, ":")
             rest == Tail(ls)
             Go(d, p) == extract_cover_data_loop(d, p, rest, v2)
             label == strip(parts[1])
             value == strip(parts[2])
             Pair(a, b) == [data EXCEPT !.credits = Append(@, <<a, b>>)]
         IN IF line = <<>> THEN Go(data, pending_label)
            ELSE IF StartsWith(lowered, "stateless as wind")
            THEN Go([data EXCEPT !.tagline = Replace(line, "_", <<"-">>)], pending_label)
            ELSE IF StartsWith(lowered, "autobiographical documentary by")
            THEN Go([data EXCEPT !.subtitle = Replace(line, "Jala Fim", <<"Jala Film">>)],
                    pending_label)
            ELSE IF StartsWith(lowered, "original title")
            THEN IF Len(parts) = 2
                 THEN Go([data EXCEPT !.original_title = value], pending_label)
                 ELSE IF v2
                 \* line.split(":", 1)[1] on a line without colon
                 THEN [raised |-> Raise("IndexError", "extract_cover_data"), data |-> data]
                 ELSE Go(data, pending_label)
            ELSE IF (IF v2 THEN StartsWithColon(lowered, "title") ELSE StartsWith(lowered, "title"))
            THEN IF Len(parts) = 2
                 THEN Go([data EXCEPT !.english_title = value], pending_label)
                 ELSE Go(data, pending_label)
            ELSE IF (IF v2 THEN StartsWith(lowered, "autobiography documentary")
                     ELSE HasPhrase(lowered, "autobiography documentary")
                            \/ HasPhrase(lowered, "autobiographical documentary"))
            THEN Go([data EXCEPT !.format_label = <<"Autobiographical Documentary">>],
                    pending_label)
            ELSE IF v2 /\ pending_label # <<>> THEN Go(Pair(pending_label, line), <<>>)
            ELSE IF Contains(line, ":")
            THEN IF value # <<>> THEN Go(Pair(label, value), pending_label)
                 ELSE Go(data, label)
            ELSE IF v2 THEN Go(data, pending_label)
            ELSE IF pending_label # <<>> THEN Go(Pair(pending_label, line), <<>>)
            ELSE Go(Pair(<<"Note">>, line), pending_label)

extract_cover_data(ls) == extract_cover_data_loop(NoCoverData, <<>>, ls, FALSE)
extract_cover_data_v2(ls) == extract_cover_data_loop(NoCoverData, <<>>, ls, TRUE)

\* --- flowables of the title scripts ---

Flow(kind, text, style) == [kind |-> kind, text |-> text, markup |-> "", style |-> style]
Gap(h) == Flow("Spacer", <<>>, h)
Body(text, style) == Flow("Paragraph", text, style)
\* section_heading(title, ...): a table around Paragraph(title.upper(), ...)
section_heading(title) == Flow("SectionHeading", <<title>>, "SectionHeading")
TitlePageBreak == Flow("PageBreak", <<>>, "")
CoverImage == Flow("Image", <<"photo01.png">>, "CENTER")

\* Paragraph(text, style) raises ValueError when it cannot parse text as markup.
Malformed(text) == Contains(text, "<")

\* story.append(...) one flowable after the other, up to the first that raises.
Emit(flowables) ==
    LET bad == {i \in DOMAIN flowables : Malformed(flowables[i].text)}
        first == CHOOSE i \in bad : \A k \in bad : i <= k
    IN IF bad = {} THEN Ok(flowables)
       ELSE [raised |-> Raise("ValueError", "Paragraph"),
             elements |-> SubSeq(flowables, 1, first - 1)]

\* story.extend(f(...)): what f appended to its own list is lost when f raises.
EmitAll(flowables) ==
    LET out == Emit(flowables)
    IN IF out.raised.type # "none" THEN [out EXCEPT !.elements = <<>>] ELSE out

NonBlank(ls) ==
    LET Kept(l) == strip(l) # <<>>
    IN [i \in DOMAIN SelectSeq(ls, Kept) |-> strip(SelectSeq(ls, Kept)[i])]

\* (key.strip(), value.strip()) of the lines holding ':'
Pairs(ls) ==
    LET Keyed(l) == l # <<>> /\ Contains(l, ":")
        keyed == SelectSeq(ls, Keyed)
    IN [i \in DOMAIN keyed |->
            <<strip(split1(keyed[i], ":")[1]), strip(split1(keyed[i], ":")[2])>>]

RECURSIVE LinkEntries(_, _)
\* (label, url) entries of the links section: a line ending in ':' labels the next.
LinkEntries(ls, pending_label) ==
    IF ls = <<>> THEN <<>>
    ELSE LET stripped == strip(Head(ls))
         IN IF stripped = <<>> THEN LinkEntries(Tail(ls), pending_label)
            ELSE IF stripped[Len(stripped)] = ":"
            THEN LinkEntries(Tail(ls), rstrip_colon(stripped))
            ELSE IF pending_label # <<>>
            THEN <<<<pending_label, stripped>>>> \o LinkEntries(Tail(ls), <<>>)
            ELSE <<<<(<<"Link">>), stripped>>>> \o LinkEntries(Tail(ls), <<>>)

\* key_value_table / links_panel: one table, its cells in reading order.
PairTable(pairs, style) ==
    IF pairs = <<>> THEN <<>>
    ELSE <<Flow("Table", Join(Flatten([i \in DOMAIN pairs |-> pairs[i]])), style)>>

\* accent_list(items, styles): one list of the non-blank items.
accent_list(items) == Flow("List", Join(NonBlank(items)), "Body")

\* The flowables of one section body, by the way the script renders the section.
SectionBody(mode, ls) ==
    LET coalesced == coalesce_paragraphs(ls)
        cleaned == NonBlank(ls)
        Styled(texts, first, others) ==
            [i \in DOMAIN texts |-> Body(texts[i], IF i = 1 THEN first ELSE others)]
    IN CASE mode = "bold_pairs" ->
                [i \in DOMAIN cleaned |->
                    IF Contains(cleaned[i], ":")
                    THEN Body(strip(split1(cleaned[i], ":")[1]) \o <<":", " ">>
                                \o strip(split1(cleaned[i], ":")[2]), "Body")
                    ELSE Body(cleaned[i], "Body")]
         [] mode = "lines" -> Styled(cleaned, "Body", "Body")
         [] mode = "link_lines" ->
                [i \in DOMAIN cleaned |->
                    Body(cleaned[i], IF cleaned[i][1] = "http" THEN "Link" ELSE "Body")]
         [] mode = "joined" ->
                IF cleaned = <<>> THEN <<>> ELSE <<Body(Join(cleaned), "Body")>>
         [] mode = "callout_lines" ->
                IF cleaned = <<>> THEN <<>> ELSE <<Flow("Table", Join(cleaned), "Callout")>>
         [] mode = "callout" ->
                IF coalesced = <<>> THEN <<>>
                ELSE <<Flow("Table", Join(coalesced), "Callout")>>
         [] mode = "coalesce" -> Styled(coalesced, "Body", "Body")
         [] mode = "coalesce_centered" -> Styled(coalesced, "BodyCenter", "Body")
         [] mode = "pairs" -> PairTable(Pairs(ls), "KeyValue")
         [] mode = "filmography" ->
                IF cleaned = <<>> THEN <<>>
                ELSE <<Body(cleaned[1], "Small")>>
                        \o (IF Len(cleaned) > 1
                            THEN <<Gap("6"), accent_list(Tail(cleaned))>> ELSE <<>>)
         [] mode = "filmography_v2" ->
                IF cleaned = <<>> THEN <<>>
                ELSE <<Body(cleaned[1], "Small"), Gap("6"), accent_list(Tail(cleaned))>>
         [] mode = "accent_list" -> <<accent_list(ls)>>
         [] mode = "links_panel" -> PairTable(LinkEntries(ls, <<>>), "Link")

Section(name, mode, banner, before, after, shown) ==
    [name |-> name, mode |-> mode, banner |-> banner, before |-> before, after |-> after,
     shown |-> shown]

\* generate_original_title_pdf.main: a section is rendered when parse_sections
\* stored it.
OriginalPlan ==
    <<Section("General Information", "bold_pairs", "General Information", "24", "12", "stored"),
      Section("Contact", "lines", "Contact", "20", "10", "stored"),
      Section("Logline", "joined", "Logline", "20", "10", "stored"),
      Section("Synopsis", "coalesce", "Synopsis", "20", "10", "stored"),
      Section("Artistic Approach", "coalesce", "Artistic Approach", "20", "10", "stored"),
      Section("Visual Material", "lines", "Visual Material", "20", "10", "stored"),
      Section("Director's Notes", "coalesce", "Director's Notes", "20", "10", "stored"),
      Section("Producer's Note", "coalesce", "Producer's Note", "20", "10", "stored"),
      Section("Finance Plan", "coalesce", "Finance Plan", "20", "10", "stored"),
      Section("Outlook & Distribution", "coalesce", "Outlook & Distribution", "20", "10",
              "stored"),
      Section("Biography", "coalesce", "Biography", "20", "10", "stored"),
      Section("Filmography", "lines", "Filmography", "20", "10", "stored"),
      Section("Festivals", "lines", "Festivals", "20", "10", "stored"),
      Section("Awards", "lines", "Awards", "20", "10", "stored"),
      Section("TV Broadcast", "lines", "TV Broadcast", "20", "10", "stored"),
      Section("Links to Previous Movie", "link_lines", "Links to Previous Movie", "20", "10",
              "stored")>>

\* restructure_original_title.build_story: a section is rendered when its body is
\* not empty ("rendered"), when its list of lines is not empty ("lines"), or when
\* one of its lines is not blank ("nonblank").
RestructurePlan ==
    <<Section("General Information", "pairs", "General Information", "", "10", "rendered"),
      Section("Contact", "coalesce", "Contact", "18", "8", "rendered"),
      Section("Logline", "callout", "Logline", "24", "12", "rendered"),
      Section("Synopsis", "coalesce", "Synopsis", "24", "10", "rendered"),
      Section("Artistic Approach", "coalesce", "Artistic Approach", "24", "10", "rendered"),
      Section("Director's Notes", "coalesce_centered", "Director's Notes", "24", "10",
              "rendered"),
      Section("Producer's Note", "coalesce", "Producer's Note", "24", "10", "rendered"),
      Section("Finance Plan", "coalesce", "Finance Plan", "24", "10", "rendered"),
      Section("Outlook & Distribution", "coalesce", "Outlook & Distribution", "24", "10",
              "rendered"),
      Section("Biography", "coalesce", "Biography", "24", "10", "rendered"),
      Section("Filmography", "filmography", "Filmography", "24", "10", "lines"),
      Section("Festivals", "accent_list", "Festivals", "24", "8", "lines"),
      Section("Awards", "accent_list", "Awards", "24", "8", "lines"),
      Section("TV Broadcast", "coalesce", "TV Broadcast", "24", "8", "rendered"),
      Section("Links to Previous Movie", "links_panel", "Links to Previous Movie", "24", "10",
              "lines")>>

\* generate_stateless_catalog_v2.main
V2Plan ==
    <<Section("General Information", "pairs", "General Information", "", "8", "rendered"),
      Section("Contact", "lines", "Contact", "18", "8", "rendered"),
      Section("Logline", "callout_lines", "Logline", "24", "10", "rendered"),
      Section("Synopsis", "lines", "Synopsis", "24", "10", "lines"),
      Section("Artistic Approach", "coalesce", "Artistic Approach", "24", "10", "lines"),
      Section("Director's Notes", "coalesce", "Director~s Notes", "24", "10", "lines"),
      Section("Producer's Note", "accent_list", "Producer~s Note", "24", "6", "nonblank"),
      Section("Finance Plan", "coalesce", "Finance Plan", "24", "10", "lines"),
      Section("Outlook & Distribution", "coalesce", "Outlook & Distribution", "24", "10",
              "lines"),
      Section("Biography", "coalesce_centered", "Biography", "24", "10", "lines"),
      Section("Filmography", "filmography_v2", "Filmography", "24", "10", "lines"),
      Section("Festivals", "accent_list", "Festival History", "24", "8", "lines"),
      Section("Awards", "accent_list", "Awards", "24", "8", "lines"),
      Section("TV Broadcast", "lines", "Broadcast", "24", "8", "lines"),
      Section("Links to Previous Movie", "links_panel", "Screeners & Materials", "24", "10",
              "lines")>>

\* The flowables of the sections, in the order of the plan.
RenderPlan(plan, secs) ==
    Flatten([i \in DOMAIN plan |->
        LET s == plan[i]
            ls == IF s.name \in DOMAIN secs THEN secs[s.name] ELSE <<>>
            body == SectionBody(s.mode, ls)
            shown == CASE s.shown = "stored" -> s.name \in DOMAIN secs
                       [] s.shown = "rendered" -> body # <<>>
                       [] s.shown = "nonblank" -> NonBlank(ls) # <<>>
                       [] OTHER -> ls # <<>>
        IN IF shown
           THEN (IF s.before = "" THEN <<>> ELSE <<Gap(s.before)>>)
                    \o <<section_heading(s.banner), Gap(s.after)>> \o body
           ELSE <<>>])

\* --- the cover pages ---

Labelled(label, value, style) ==
    IF value = <<>> THEN <<>>
    ELSE <<Body(<<label>>, "CoverMetaLabel"), Body(value, style)>>
Optional(text, style) == IF text = <<>> THEN <<>> ELSE <<Body(text, style)>>
accent_rule == Flow("Rule", <<>>, "")

\* make_image_flowable(photo01_path, ...): None unless the file exists, its size
\* can be read and is positive; the scaling does not change what is appended.
make_image_flowableUnchecked(photo) == <<CoverImage>>

make_image_flowable(photo) ==
    IF ~photo.exists THEN <<>>
    ELSE IF ~photo.reads THEN <<>>
    ELSE IF photo.w <= 0 \/ photo.h <= 0 THEN <<>>
    ELSE <<CoverImage>>

\* generate_original_title_pdf.main, the first page
OriginalCover(info, photo) ==
    <<Gap("20")>> \o Optional(info["title"], "CoverSubtitle")
        \o <<Body(<<"Stateless as Wind">>, "CoverTitle")>>
        \o Optional(info["subtitle"], "CoverSubtitle")
        \o <<Gap("12"), accent_rule, Gap("16")>>
        \o Labelled("Original Title", info["original_title"], "CoverOriginalTitle")
        \o Labelled("Title", info["english_title"], "CoverMetaValue")
        \o Labelled("Format", info["format"], "CoverMetaValue")
        \o Labelled("Director / Writer / Producer", info["director"], "CoverMetaValue")
        \o Labelled("Production Company", info["production_company"], "CoverMetaValue")
        \o Labelled("SIRET", info["siret"], "CoverMetaValue")
        \o Labelled("Cinematographers", info["cinematographers"], "CoverMetaValue")
        \o Labelled("Editor", info["editor"], "CoverMetaValue")
        \o Labelled("Sound Recordist", info["sound_recordist"], "CoverMetaValue")
        \o <<Gap("20")>> \o make_image_flowable(photo) \o <<TitlePageBreak>>

\* The credits with a non-empty value, as one key_value_table after a spacer; v2
\* alone keeps the digits of a SIRET number together with no-break spaces.
Credits(data, gap, v2) ==
    LET Valued(pair) == strip(pair[2]) # <<>>
        valued == SelectSeq(data.credits, Valued)
        credits_pairs ==
            [i \in DOMAIN valued |->
                IF v2 /\ StartsWith(LowerLine(valued[i][1]), "siret")
                THEN <<valued[i][1], Replace(valued[i][2], " ", <<"nbsp">>)>>
                ELSE <<valued[i][1], strip(valued[i][2])>>]
    IN IF credits_pairs = <<>> THEN <<>>
       ELSE <<Gap(gap)>> \o PairTable(credits_pairs, "CoverMeta")

\* make_cover_story: the photo is skipped when the file is missing; when reading
\* it, scaling it (a width or height of 0 divides by zero) or loading it raises, a
\* notice takes its place.
CoverPhoto(photo) ==
    IF ~photo.exists THEN <<>>
    ELSE IF ~photo.reads \/ photo.w = 0 \/ photo.h = 0
    THEN <<Body(<<"[Unable to load cover image]">>, "Small")>>
    ELSE <<Gap("18"), CoverImage>>

make_cover_story(data, photo) ==
    LET english_title == IF data.english_title = <<>> THEN <<"Stateless as Wind">>
                         ELSE data.english_title
    IN <<Gap("12")>> \o Optional(strip(data.tagline), "CoverSubtitle")
        \o <<Body(english_title, "CoverTitle")>>
        \o Optional(strip(data.subtitle), "CoverSubtitle")
        \o <<accent_rule, Gap("14"), section_heading("Original Title"), Gap("10")>>
        \o Optional(strip(data.original_title), "CoverOriginal")
        \o Labelled("International Title", english_title, "CoverMetaValue")
        \o Labelled("Format", strip(data.format_label), "CoverMetaValue")
        \o Credits(data, "6", FALSE) \o CoverPhoto(photo) \o <<TitlePageBreak>>

\* generate_stateless_catalog_v2.main, the cover spread (it has no photo and no
\* page break)
V2Cover(data) ==
    <<Gap("12")>> \o Optional(data.tagline, "CoverSubtitle")
        \o <<Body(<<"Stateless as Wind">>, "CoverTitle")>>
        \o Optional(data.subtitle, "CoverSubtitle")
        \o <<accent_rule, Gap("16"), Body(<<"Original Title">>, "CoverMetaLabel")>>
        \o Optional(data.original_title, "CoverOriginalTitle")
        \o Labelled("International Title", data.english_title, "CoverMetaValue")
        \o Labelled("Format", data.format_label, "CoverMetaValue")
        \o Credits(data, "8", TRUE) \o <<Gap("18")>>

\* --- what the title scripts find on disk ---

MaxLines == 4

LineKinds ==
    {"blank", "general", "contact", "synopsis", "plain", "keyed", "original_title", "broken"}

\* The content word of the i-th line: the words of different lines differ.
ContentWord(i) == "w" \o ToString(i)

SourceLine(kind, i) ==
    CASE kind = "blank" -> IF i % 2 = 0 THEN <<>> ELSE <<" ">>
      [] kind = "general" -> <<"General information">>
      [] kind = "contact" -> <<" ", "CONTACT", ":">>
      [] kind = "synopsis" -> <<"Synopsis">>
      [] kind = "keyed" -> <<"Key", " ", ":", " ", ContentWord(i)>>
      [] kind = "original_title" -> <<"Original title", " ", ContentWord(i)>>
      [] kind = "broken" -> <<"<", ContentWord(i)>>
      [] OTHER -> <<ContentWord(i), " ">>

TitleDocuments ==
    {[i \in DOMAIN kinds |-> SourceLine(kinds[i], i)] : kinds \in SeqsUpTo(LineKinds, MaxLines)}

BaseTitleDocument == <<SourceLine("plain", 1), SourceLine("synopsis", 2), SourceLine("plain", 3)>>

\* photo01.png: missing, unreadable, of width 0, or a picture.
GoodPhoto == [exists |-> TRUE, reads |-> TRUE, w |-> 800, h |-> 600]
PhotoFiles ==
    {[exists |-> FALSE, reads |-> FALSE, w |-> 0, h |-> 0],
     [exists |-> TRUE, reads |-> FALSE, w |-> 0, h |-> 0],
     [exists |-> TRUE, reads |-> TRUE, w |-> 0, h |-> 600],
     GoodPhoto}

InitTitleRun(name) ==
    /\ script = name
    /\ pc = "load"
    /\ err = NoError
    /\ \E document \in TitleDocuments, photo \in PhotoFiles, source \in BOOLEAN :
        /\ (source /\ photo = GoodPhoto) \/ document = BaseTitleDocument
        /\ env = [source |-> source, document |-> document, photo |-> photo]
    /\ story = <<>>
    /\ builds = 0
    /\ IdlePure /\ IdleBuild /\ IdleFinal /\ IdleTitle

InitOriginal == InitTitleRun("generate_original_title_pdf")
InitRestructure == InitTitleRun("restructure_original_title")
InitV2 == InitTitleRun("generate_stateless_catalog_v2")

\* --- the steps of the three main() functions ---

TSFrame == UNCHANGED <<pureVars, script, env, builds, buildVars, finalVars>>

\* Reading the source: lines, sections and cover fields, or the exception.
Load(missing, ls, secs, cov) ==
    /\ IF ~env.source THEN Fail(missing) /\ UNCHANGED titleVars
       ELSE IF cov.raised.type # "none"
       THEN Fail(cov.raised) /\ lines' = ls /\ sections' = secs /\ UNCHANGED cover
       ELSE /\ lines' = ls /\ sections' = secs /\ cover' = cov.data
            /\ pc' = "cover" /\ UNCHANGED err
    /\ UNCHANGED story /\ TSFrame

\* Appending flowables to the story, or the exception that ends the run.
Append_(out, nextPc) ==
    /\ story' = story \o out.elements
    /\ IF out.raised.type # "none" THEN Fail(out.raised) ELSE pc' = nextPc /\ UNCHANGED err
    /\ UNCHANGED titleVars /\ TSFrame

Build ==
    /\ pc = "build"
    /\ DocBuild("done")
    /\ UNCHANGED <<pureVars, script, env, story, buildVars, finalVars, titleVars>>

GO_Load ==
    /\ script = "generate_original_title_pdf" /\ pc = "load"
    /\ Load(Raise("PackageNotFoundError", "Original title.docx"), env.document,
            parse_sections(env.document),
            [raised |-> NoError, data |-> extract_cover_info(env.document)])

GO_Cover ==
    /\ script = "generate_original_title_pdf" /\ pc = "cover"
    /\ Append_(Emit(OriginalCover(cover, env.photo)), "sections")

GO_Sections ==
    /\ script = "generate_original_title_pdf" /\ pc = "sections"
    /\ Append_(Emit(RenderPlan(OriginalPlan, sections)), "build")

GO_Build == script = "generate_original_title_pdf" /\ Build

RS_Load ==
    /\ script = "restructure_original_title" /\ pc = "load"
    /\ LET ls == [i \in DOMAIN env.document |-> NFKC(env.document[i])]
           parsed == parse_content(ls)
       IN Load(Raise("FileNotFoundError", "Original title.docx"), ls, parsed.sections,
               extract_cover_data(parsed.cover_lines))

RS_Cover ==
    /\ script = "restructure_original_title" /\ pc = "cover"
    /\ Append_(EmitAll(make_cover_story(cover, env.photo)), "sections")

RS_Story ==
    /\ script = "restructure_original_title" /\ pc = "sections"
    /\ Append_(EmitAll(RenderPlan(RestructurePlan, sections)), "build")

RS_Build == script = "restructure_original_title" /\ Build

V2_Load ==
    /\ script = "generate_stateless_catalog_v2" /\ pc = "load"
    /\ LET parsed == parse_content_v2(env.document)
       IN Load(Raise("FileNotFoundError", "main-content.txt"), env.document, parsed.sections,
               extract_cover_data_v2(parsed.cover_lines))

V2_Cover ==
    /\ script = "generate_stateless_catalog_v2" /\ pc = "cover"
    /\ Append_(Emit(V2Cover(cover)), "sections")

V2_Sections ==
    /\ script = "generate_stateless_catalog_v2" /\ pc = "sections"
    /\ Append_(Emit(RenderPlan(V2Plan, sections)), "build")

V2_Build == script = "generate_stateless_catalog_v2" /\ Build

NextOriginal == GO_Load \/ GO_Cover \/ GO_Sections \/ GO_Build
NextRestructure == RS_Load \/ RS_Cover \/ RS_Story \/ RS_Build
NextV2 == V2_Load \/ V2_Cover \/ V2_Sections \/ V2_Build

\* The two scripts that restructure "Original title.docx".
InitTitle == InitOriginal \/ InitRestructure
NextTitle == NextOriginal \/ NextRestructure
SpecTitle == InitTitle /\ [][NextTitle]_vars

\* A run of any of the five scripts.
Init == InitBuild \/ InitFinal \/ InitOriginal \/ InitRestructure \/ InitV2
Next == NextBuild \/ NextFinal \/ NextOriginal \/ NextRestructure \/ NextV2
Spec == Init /\ [][Next]_vars

(***************************************************************************)
(* Claims about the title scripts and about every script                   *)
(***************************************************************************)

RestructuresOriginalTitle ==
    script \in {"generate_original_title_pdf", "restructure_original_title"}

\* The story is complete: doc.build is next or has been invoked.
ReachedBuild == pc = "build" \/ builds >= 1

IsContentWord(tok) == \E i \in 1..MaxLines : tok = ContentWord(i)
WordLine(tok) == CHOOSE i \in 1..MaxLines : tok = ContentWord(i)

\* The content words of the story, in story order.
StoryWords == Flatten([i \in DOMAIN story |-> SelectSeq(story[i].text, IsContentWord)])

\* C4: generate_original_title_pdf.main and restructure_original_title.build_story
\* keep the content order: whatever the order of the section headings in the
\* source, the content lines that are rendered appear in the story in the order
\* they have in the source.
C4_ContentOrderKept ==
    (RestructuresOriginalTitle /\ ReachedBuild) =>
        \A a, b \in DOMAIN StoryWords :
            a < b => WordLine(StoryWords[a]) <= WordLine(StoryWords[b])

\* The flowables before the first PageBreak.
FirstPage ==
    LET breaks == {i \in DOMAIN story : story[i].kind = "PageBreak"}
    IN IF breaks = {} THEN story
       ELSE SubSeq(story, 1, (CHOOSE i \in breaks : \A k \in breaks : i <= k) - 1)

PhotoOnFirstPage == \E i \in DOMAIN FirstPage : FirstPage[i] = CoverImage
NoticeOnFirstPage ==
    \E i \in DOMAIN FirstPage : FirstPage[i].text = <<"[Unable to load cover image]">>

\* photo01.png exists, its size can be read, and width and height are positive.
PhotoUsable == env.photo.exists /\ env.photo.reads /\ env.photo.w > 0 /\ env.photo.h > 0

RaisedBeforeBuild == err.type \notin {"none", "BuildError"}

\* C7: in every script doc.build is invoked at most once per run, no step changes
\* the story once doc.build is invoked (the invoking step included), and a run that
\* an exception ended before doc.build never invokes it.  An exception that the
\* script catches (an image create_catalog cannot place, an unusable cover photo)
\* does not end the run.
C7_BuildOnceAndLast ==
    /\ [](builds <= 1)
    /\ [][builds' >= 1 => story' = story]_vars
    /\ [](RaisedBeforeBuild => builds = 0)

\* A run that an exception ended in the middle of the story assembly.
C7_Witness ==
    /\ pc = "failed" /\ err.type = "ValueError"
    /\ story # <<>>
    /\ builds = 0

(***************************************************************************)
(* Calls of the line functions of the title scripts on bounded inputs      *)
(*                                                                         *)
(* The lines are those load_doc_lines and str.splitlines hand over: NFKC   *)
(* has been applied, so no line holds a no-break space.                    *)
(***************************************************************************)

MaxParseLines == 4

ParseKinds ==
    {"blank", "synopsis", "contact", "straight", "typographic", "visual", "inline",
     "digits", "numbered", "plain"}

ParseLine(kind, i) ==
    CASE kind = "blank" -> IF i % 2 = 0 THEN <<>> ELSE <<" ">>
      [] kind = "synopsis" -> <<"Synopsis">>
      [] kind = "contact" -> <<" ", "CONTACT", ":">>
      [] kind = "straight" -> <<"Producer's Note">>
      [] kind = "typographic" -> <<"Producer~s Note", ":">>
      [] kind = "visual" -> <<"visual material">>
      [] kind = "inline" -> <<"Synopsis", ":", " ", ContentWord(i)>>
      [] kind = "digits" -> IF i % 2 = 0 THEN <<"12">> ELSE <<" ", "7">>
      [] kind = "numbered" -> <<"7", " ", ContentWord(i)>>
      [] OTHER -> <<ContentWord(i), " ">>

ParseInputs ==
    {[i \in DOMAIN kinds |-> ParseLine(kinds[i], i)] : kinds \in SeqsUpTo(ParseKinds, MaxParseLines)}

InitParse ==
    /\ args \in {[lines |-> ls] : ls \in ParseInputs}
    /\ result = Pending
    /\ IdleRun /\ IdleBuild /\ IdleFinal /\ IdleTitle

\* The same function in generate_original_title_pdf, generate_stateless_catalog_v2
\* and restructure_original_title.
coalesce_paragraphs_v2(ls) == coalesce_loop(ls, <<>>, <<>>)
coalesce_paragraphs_restructure(ls) == coalesce_loop(ls, <<>>, <<>>)

CallParseContent ==
    /\ result = Pending
    /\ result' = Returned([fn |-> "parse_content",
                           v2 |-> parse_content_v2(args.lines),
                           restructure |-> parse_content(args.lines)])
    /\ UNCHANGED <<args, runVars, buildVars, finalVars, titleVars>>

CallParseSections ==
    /\ result = Pending
    /\ result' = Returned([fn |-> "parse_sections", sections |-> parse_sections(args.lines)])
    /\ UNCHANGED <<args, runVars, buildVars, finalVars, titleVars>>

CallCoalesceParagraphs ==
    /\ result = Pending
    /\ result' = Returned([fn |-> "coalesce_paragraphs",
                           original |-> coalesce_paragraphs(args.lines),
                           v2 |-> coalesce_paragraphs_v2(args.lines),
                           restructure |-> coalesce_paragraphs_restructure(args.lines)])
    /\ UNCHANGED <<args, runVars, buildVars, finalVars, titleVars>>

NextParse == CallParseContent \/ CallParseSections \/ CallCoalesceParagraphs

SpecParse == InitParse /\ [][NextParse]_vars

(***************************************************************************)
(* Claims about the line functions                                         *)
(***************************************************************************)

Called(fn) == result.done /\ result.value.fn = fn

\* The positions of ls, in order, that satisfy Keep.
Positions(ls, Keep(_)) == SelectSeq([i \in DOMAIN ls |-> i], Keep)

DigitOnly(line) == strip(line) # <<>> /\ \A i \in DOMAIN strip(line) : strip(line)[i] \in {"7", "12"}

WithoutDigitOnly(ls) ==
    LET Keep(line) == ~DigitOnly(line) IN SelectSeq(ls, Keep)

\* Every list parse_content returned: the cover list and the section lists.
Lists(parsed) == {parsed.cover_lines} \cup {parsed.sections[name] : name \in DOMAIN parsed.sections}

\* C14: generate_stateless_catalog_v2.parse_content skips a line that holds digits
\* only after stripping: no list holds such a line, and the cover list and every
\* section list are those the function returns for the lines without the
\* digit-only ones (so the current section is not changed either).
C14_DigitOnlyLinesSkipped ==
    Called("parse_content") =>
        /\ \A list \in Lists(result.value.v2) : \A i \in DOMAIN list : ~DigitOnly(list[i])
        /\ result.value.v2 = parse_content_v2(WithoutDigitOnly(args.lines))

\* A page number between a heading and its first content line, and one in the cover.
C14_Witness ==
    /\ Called("parse_content")
    /\ args.lines = <<ParseLine("digits", 1), ParseLine("synopsis", 2),
                      ParseLine("digits", 3), ParseLine("plain", 4)>>
    /\ result.value.v2.cover_lines = <<>>
    /\ result.value.v2.sections["Synopsis"] = <<<<ContentWord(4)>>>>

\* A line is a heading match: stripped, without its trailing colons and lower-cased
\* it is a key of the heading map.
IsHeadingLine(headings, line) ==
    LET key == LowerLine(rstrip_colon(strip(line)))
    IN Len(key) = 1 /\ key[1] \in DOMAIN headings

HeadingName(headings, line) == headings[LowerLine(rstrip_colon(strip(line)))[1]]

\* The list line i belongs to: that of the most recent heading match before it,
\* the cover list when there is none.
Owner(headings, ls, i) ==
    LET before == {j \in 1..(i - 1) : IsHeadingLine(headings, ls[j])}
    IN IF before = {} THEN "Cover"
       ELSE HeadingName(headings, ls[CHOOSE j \in before : \A k \in before : k <= j])

\* The stripped lines of ls that are non-blank, no heading match and (where digit-only
\* lines are skipped) not digit-only, and belong to the list called name, in order.
ExpectedList(headings, skipsDigits, ls, name) ==
    LET Keep(i) ==
            /\ strip(ls[i]) # <<>>
            /\ ~IsHeadingLine(headings, ls[i])
            /\ ~(skipsDigits /\ DigitOnly(ls[i]))
            /\ Owner(headings, ls, i) = name
        kept == Positions(ls, Keep)
    IN [n \in DOMAIN kept |-> strip(ls[kept[n]])]

NonBlankEntries(list) ==
    LET Filled(line) == line # <<>> IN SelectSeq(list, Filled)

ParsedAsClaimed(parsed, headings, skipsDigits, ls) ==
    /\ NonBlankEntries(parsed.cover_lines) = ExpectedList(headings, skipsDigits, ls, "Cover")
    /\ DOMAIN parsed.sections = {headings[k] : k \in DOMAIN headings}
    /\ \A name \in DOMAIN parsed.sections :
        NonBlankEntries(parsed.sections[name]) = ExpectedList(headings, skipsDigits, ls, name)

\* C15: in both parse_content functions every line that is non-blank, no heading
\* match and (in v2) not digit-only is appended, stripped, to exactly one list: the
\* cover list while no heading has been matched, afterwards the list of the most
\* recently matched heading; each list keeps the source order, a heading that
\* occurs again appends to the list it already has, and no heading line is in a
\* list.
C15_LinesGoToTheCurrentList ==
    Called("parse_content") =>
        /\ ParsedAsClaimed(result.value.restructure, heading_map, FALSE, args.lines)
        /\ ParsedAsClaimed(result.value.v2, heading_map_v2, TRUE, args.lines)

\* The Synopsis heading occurs twice: the second content line joins the first.
C15_Witness ==
    /\ Called("parse_content")
    /\ args.lines = <<ParseLine("synopsis", 1), ParseLine("plain", 2),
                      ParseLine("synopsis", 3), ParseLine("plain", 4)>>
    /\ result.value.restructure.sections["Synopsis"] = <<<<ContentWord(2)>>, <<ContentWord(4)>>>>
    /\ result.value.v2.sections["Synopsis"] = <<<<ContentWord(2)>>, <<ContentWord(4)>>>>
    /\ result.value.v2.cover_lines = <<>>

NoDigitOnlyLine(ls) == \A i \in DOMAIN ls : ~DigitOnly(ls[i])

\* The two parse_content functions return the same cover list and the same list
\* for every section name.
SameParse ==
    /\ result.value.v2.cover_lines = result.value.restructure.cover_lines
    /\ result.value.v2.sections = result.value.restructure.sections

\* C16: for every sequence of lines without a digit-only line the two
\* parse_content functions return the same cover list and the same list for every
\* section name, headings written with a typographic apostrophe included.
C16_ParseContentEquivalent ==
    (Called("parse_content") /\ NoDigitOnlyLine(args.lines)) => SameParse

\* A heading written with a typographic apostrophe.
TypographicHeading(line) ==
    IsHeadingLine(heading_map, line) /\ ~IsHeadingLine(heading_map_v2, line)

\* What does hold: the two functions agree on the sequences in which no heading
\* is written with a typographic apostrophe.
ParseContentAgreeOnStraightApostrophes ==
    (/\ Called("parse_content") /\ NoDigitOnlyLine(args.lines)
     /\ \A i \in DOMAIN args.lines : ~TypographicHeading(args.lines[i])) => SameParse

\* The maximal runs of consecutive non-blank lines of ls, as <<first, last>> pairs.
Filled(ls, i) == strip(ls[i]) # <<>>

Runs(ls) ==
    LET Starts(i) == Filled(ls, i) /\ (i = 1 \/ ~Filled(ls, i - 1))
        starts == Positions(ls, Starts)
        End(s) == CHOOSE e \in s..Len(ls) :
                    /\ \A k \in s..e : Filled(ls, k)
                    /\ (e = Len(ls) \/ ~Filled(ls, e + 1))
    IN [n \in DOMAIN starts |-> <<starts[n], End(starts[n])>>]

\* The stripped lines first..last of ls with one space between two of them.
SpaceJoined(ls, first, last) ==
    Flatten([n \in 1..(last - first + 1) |->
                (IF n = 1 THEN <<>> ELSE <<" ">>) \o strip(ls[first + n - 1])])

OneStringPerRun(ls) ==
    [n \in DOMAIN Runs(ls) |-> SpaceJoined(ls, Runs(ls)[n][1], Runs(ls)[n][2])]

\* C17: coalesce_paragraphs returns one string per maximal run of consecutive
\* non-blank lines, in source order, each the stripped lines of its run joined by
\* single spaces; no string of the result is empty; and the functions of the three
\* scripts return the same list.
C17_CoalesceParagraphs ==
    Called("coalesce_paragraphs") =>
        /\ result.value.original = OneStringPerRun(args.lines)
        /\ result.value.v2 = result.value.original
        /\ result.value.restructure = result.value.original
        /\ \A i \in DOMAIN result.value.original : result.value.original[i] # <<>>

\* Two runs: one of two lines, and after a blank line one that ends the input.
C17_Witness ==
    /\ Called("coalesce_paragraphs")
    /\ args.lines = <<ParseLine("plain", 1), ParseLine("numbered", 2),
                      ParseLine("blank", 3), ParseLine("plain", 4)>>
    /\ result.value.restructure =
          <<<<ContentWord(1), " ", "7", " ", ContentWord(2)>>, <<ContentWord(4)>>>>

\* The keywords a line matches: stripped, lower-cased and without its trailing
\* colons it equals the keyword or starts with the keyword and a ':'.
MatchedKeywords(line) ==
    LET l == rstrip_colon(LowerLine(strip(line)))
    IN {k \in DOMAIN title_section_keywords :
            l = <<k>> \/ (Len(l) >= 2 /\ l[1] = k /\ l[2] = ":")}

IsSectionHeading(line) == strip(line) # <<>> /\ MatchedKeywords(line) # {}

\* The section line i belongs to: that of the last heading before it, "None" when
\* no heading comes before it.
SectionOf(ls, i) ==
    LET before == {j \in 1..(i - 1) : IsSectionHeading(ls[j])}
        last == CHOOSE j \in before : \A k \in before : k <= j
    IN IF before = {} THEN "None"
       ELSE title_section_keywords[CHOOSE k \in MatchedKeywords(ls[last]) : TRUE]

IsContentLine(ls, i) == strip(ls[i]) # <<>> /\ ~IsSectionHeading(ls[i])

====
